---- MODULE Spec2Model ----
(***************************************************************************)
(* RuneForm (rune-form): the data tree, the touched map, the schema and    *)
(* custom error maps, the reactive wrappers of the tree and of its arrays, *)
(* the ordinal remap of touched keys, and the validation passes.           *)
(*                                                                         *)
(* The form modelled is the one of the library's tests reduced to one      *)
(* scalar field and one array of objects:                                  *)
(*     { name: string().min(2),                                            *)
(*       items: array(object({ x: string().min(1), tags: array(string()) })) } *)
(* A dotted path is a sequence of its segments ("items.1.x" is             *)
(* <<"items", "1", "x">>); an ordinal segment is the numeral the code      *)
(* writes with a template literal and reads back with parseInt.            *)
(***************************************************************************)
EXTENDS Integers, Sequences, FiniteSets, TLC

\* ---------------------------------------------------------------- bounds
MaxLen == 3        \* longest array the operations build
MaxInit == 2       \* longest array in the caller's initial data
MaxOps == 2        \* calls of the public surface per behaviour of Spec
MaxBlockOps == 3   \* calls of the public surface in the block of SpecBlock
MaxInFlight == 4   \* validator calls that have not settled yet
MaxWrap == 2       \* wrappers stored around one element object
MaxPathCache == 7  \* entries the compiled-path cache holds (the code's bound,
                   \* 1000, scaled to the paths the model asks for)
MaxFieldCache == 2 \* entries the field-view cache holds (the code's 500, scaled)
MaxViewOps == 2    \* calls of the public surface per behaviour of SpecViews
MaxCacheOps == 4   \* calls of the public surface per behaviour of SpecCaches
MaxTags == 2       \* longest array of strings inside an element
MaxNestedOps == 4  \* calls of the public surface in the block of SpecNested
MaxSegments == 3   \* segments of the longest path compiled in SpecProbe

\* Field values: 0 is a value the schema rejects (too short), 1 one it accepts.
Vals == {0, 1}

\* ------------------------------------------------------- path addressing
arrayPath == <<"items">>
namePath == <<"name">>

\* `${n}`: the decimal numeral of an integer.
Numerals == <<"0", "1", "2", "3", "4", "5", "6", "7", "8", "9", "10", "11", "12">>
Negatives == <<"-1", "-2", "-3", "-4", "-5", "-6">>
NumStr(n) ==
  IF n >= 0 /\ n < Len(Numerals) THEN Numerals[n + 1]
  ELSE IF n < 0 /\ -n <= Len(Negatives) THEN Negatives[-n]
  ELSE "NaN"

\* /^\d+$/.test(str)
isArrayIndex(str) == \E n \in 1..Len(Numerals) : Numerals[n] = str

\* parseInt(str, 10) of a string that isArrayIndex
parseInt(str) == (CHOOSE n \in 1..Len(Numerals) : Numerals[n] = str) - 1

\* key.startsWith(prefix + '.')
StartsWithDot(key, prefix) ==
  Len(key) > Len(prefix) /\ SubSeq(key, 1, Len(prefix)) = prefix

ElemPath(i) == arrayPath \o <<NumStr(i)>>
ElemField(i) == arrayPath \o <<NumStr(i), "x">>
TagsPath(i) == arrayPath \o <<NumStr(i), "tags">>

\* key.startsWith(prefix), for keys and prefixes that end at a segment boundary
StartsWith(key, prefix) ==
  Len(key) >= Len(prefix) /\ SubSeq(key, 1, Len(prefix)) = prefix

\* ------------------------------------------------ maps keyed by a path
EmptyMap == [k \in {} |-> TRUE]
Put(m, k, v) == [q \in DOMAIN m \cup {k} |-> IF q = k THEN v ELSE m[q]]
Del(m, k) == [q \in DOMAIN m \ {k} |-> m[q]]
Without(m, ks) == [q \in DOMAIN m \ ks |-> m[q]]

\* ------------------------------------------------------ ordinal remapper
getTouchedKeysForArray(t, path) ==
  {key \in DOMAIN t : StartsWithDot(key, path) /\ key # path}

\* indexPattern ^path\.(\d+)(?:\.|$) matches key
MatchesIndex(key, path) ==
  StartsWithDot(key, path) /\ isArrayIndex(key[Len(path) + 1])

IndexOf(key, path) == parseInt(key[Len(path) + 1])

\* `${arrayPath}.${newIndex}` followed by the rest of the key, if any
WithIndex(key, path, newIndex) ==
  path \o <<NumStr(newIndex)>> \o SubSeq(key, Len(path) + 2, Len(key))

\* The loop of shiftArrayIndicesInTouchedState over the sorted keysToShift:
\* descending index for an insertion, ascending for a removal. Keys of one
\* index keep their order, which the result does not depend on.
RECURSIVE MoveKeys(_, _, _, _)
MoveKeys(t, keys, path, shiftAmount) ==
  IF keys = {} THEN t
  ELSE
    LET key == CHOOSE k \in keys : \A o \in keys :
                 IF shiftAmount > 0 THEN IndexOf(k, path) >= IndexOf(o, path)
                                    ELSE IndexOf(k, path) <= IndexOf(o, path)
        newIndex == IndexOf(key, path) + shiftAmount
        newKey == WithIndex(key, path, newIndex)
        moved == IF newIndex < 0 THEN t
                 ELSE IF key \in DOMAIN t THEN Del(Put(t, newKey, t[key]), key)
                 ELSE t
    IN MoveKeys(moved, keys \ {key}, path, shiftAmount)

shiftArrayIndicesInTouchedState(t, touchedKeys, path, startIndex, shiftAmount) ==
  LET keysToShift == {key \in touchedKeys :
                        MatchesIndex(key, path) /\ IndexOf(key, path) >= startIndex}
  IN MoveKeys(t, keysToShift, path, shiftAmount)

syncTouchedStateForArrayRemoval(t, path, startIndex, deleteCount) ==
  LET touchedKeys == getTouchedKeysForArray(t, path)
      keysToRemove == {key \in touchedKeys : \E i \in 0..(deleteCount - 1) :
                         key[Len(path) + 1] = NumStr(startIndex + i)}
  IN shiftArrayIndicesInTouchedState(Without(t, keysToRemove), touchedKeys, path,
                                     startIndex, -deleteCount)

syncTouchedStateForArrayInsertion(t, path, startIndex, insertCount) ==
  shiftArrayIndicesInTouchedState(t, getTouchedKeysForArray(t, path), path,
                                  startIndex, insertCount)

syncTouchedStateForArraySwap(t, path, i, j) ==
  LET pi == path \o <<NumStr(i)>>
      pj == path \o <<NumStr(j)>>
      touchedKeys == {key \in DOMAIN t : StartsWithDot(key, pi) \/ StartsWithDot(key, pj)}
      swapped(key) == IF StartsWithDot(key, pi) THEN WithIndex(key, path, j)
                      ELSE WithIndex(key, path, i)
      newKeys == {swapped(key) : key \in touchedKeys}
      source(nk) == CHOOSE key \in touchedKeys : swapped(key) = nk
  IN [q \in (DOMAIN t \ touchedKeys) \cup newKeys |->
        IF q \in newKeys THEN t[source(q)] ELSE t[q]]

\* ------------------------------------------------------------- the state
VARIABLES
  adapter,        \* the validator adapter: "zod" (fromSchema) or "custom" (fromCustom)
  initialData,    \* constructor argument: [name, items], kept for reset()
  name,           \* _data.name
  items,          \* _data.items: one slot per element, see Slot
  touched,        \* touched: path -> boolean
  errors,         \* errors: path -> messages (schema errors)
  customErrors,   \* customErrors: path -> messages
  isValid,
  isValidating,
  passes,         \* validateSchema() calls awaiting the validator, oldest first
  pendingArrayValidation,  \* _pendingArrayValidation: a set of array paths
  microtasks,     \* the array paths of the callbacks queued by
                  \* _debouncedArrayValidation and not yet run, oldest first
  pathCache,      \* _pathCache: the keys (paths) in insertion order
  fieldCache,     \* _fieldCache: the keys (paths) in insertion order
  probe,          \* a tree outside any form with the path and value of the
                  \* compiled accessor tried on it, <<>> where none is tried
  effectDirty,    \* the constructor's $effect is due to run
  validationTimeout,       \* the timer of _validationTimeoutId is pending
  win,            \* history: value-changing writes of the current debounce window
                  \* and the validator calls those writes made
  lastSwap,       \* history: <<i, j, touched before>> of the swap(path, i, j) that
                  \* led to this state, <<>> after any other step
  lastOvertaken,  \* history: the pass that settled last was started before one
                  \* that had settled earlier
  resets,         \* history: consecutive reset() calls that led to this state
  disposals,      \* history: consecutive dispose() calls that led to this state
  inCall,         \* <<[methodName, insertCount, previousLength, done]>> while a
                  \* wrapped array method is between its native call and its
                  \* return, done being the bookkeeping calls made so far; else <<>>
  lastSubmit,     \* history: <<[errorCount, invoked]>> of the submit handler that
                  \* resumed in the step that led to this state, <<>> after any
                  \* other step
  lastThrew,      \* history: the pass that settled last ended in the catch block
  settledWithCustom,  \* history: a pass settled while a custom error was set,
                  \* and no custom error was set or cleared since
  steps           \* public-surface calls so far

vars == <<adapter, initialData, name, items, touched, errors, customErrors, isValid,
          isValidating, passes, pendingArrayValidation, microtasks, pathCache,
          fieldCache, probe, effectDirty,
          validationTimeout, win, lastSwap, lastOvertaken, lastThrew,
          settledWithCustom, resets, disposals, lastSubmit, inCall, steps>>

\* ------------------------------------------------- reactive tree wrapper
\* An element object {x, tags} of the array with the wrappers made for it. The
\* _proxyCache is keyed by object identity and an element object is held by
\* one slot, so the cache entries of an element are kept with its slot:
\*   wraps   the parentPath ordinals of the proxies stored around the object
\*           (innermost first): target[i] holds proxy(...proxy(object)),
\*   cached  the parentPath ordinal of _proxyCache.get(target[i]), NoProxy if
\*           the value stored in the slot has no proxy yet,
\*   tags    the element's array of strings,
\*   tagsBound  the ordinal k of the parentPath "items.k.tags" of
\*           _proxyCache.get(tags), NoProxy if that array has no proxy yet.
NoProxy == 0 - 1
Omitted == 0 - 1   \* deleteCount not passed
Absent == 0 - 1    \* _data.name where _data is {}: the tree dispose() leaves

Plain(v) == [x |-> v, wraps |-> <<>>, cached |-> NoProxy, tags |-> <<>>, tagsBound |-> NoProxy]

\* createReactiveData(target[i], "items.i"): the cached proxy if there is one,
\* whatever path it was made for, else a new proxy for "items.i".
BoundOf(slot, i) == IF slot.cached # NoProxy THEN slot.cached ELSE i
createReactiveData(slot, i) == [slot EXCEPT !.cached = BoundOf(slot, i)]

\* The ordinals of the set traps an assignment through items[i] runs, inner first.
ProxyChain(slot, i) == Append(slot.wraps, BoundOf(slot, i))

\* array[i] = createReactiveData(array[i], "items.i")
StoreProxy(slot, i) == [slot EXCEPT !.wraps = ProxyChain(slot, i), !.cached = NoProxy]

ensureArrayElementsReactive(its) == [n \in 1..Len(its) |-> StoreProxy(its[n], n - 1)]

Range(s) == {s[n] : n \in 1..Len(s)}

Undefined == "undefined"

\* _handleFieldChange("items.k.x") of every set trap of the chain: markTouched
TouchChain(t, chain) ==
  LET new == {ElemField(k) : k \in Range(chain)}
  IN [q \in DOMAIN t \cup new |-> IF q \in new THEN TRUE ELSE t[q]]

\* ------------------------------------------------------------- validator
\* The external validator's verdict on a tree. The zod adapter flattens the
\* issues to dotted paths; the custom adapter keys the messages of each of its
\* functions ("name", "items") by the function's key.
\* The empty tree {} lacks both properties: each is reported as required.
\* An element that is undefined is reported at the element's own path.
safeParse(n, its) ==
  LET bad == {i \in 1..Len(its) : its[i].x = 0}
      holes == {i \in 1..Len(its) : its[i].x = Absent}
      keys == (IF n = 0 THEN {namePath} ELSE {})
              \cup (IF adapter = "custom"
                      THEN (IF bad \cup holes = {} THEN {} ELSE {arrayPath})
                      ELSE {ElemField(i - 1) : i \in bad} \cup {ElemPath(i - 1) : i \in holes})
      errs == [q \in keys |-> IF q = namePath THEN <<"too short">> ELSE <<"required">>]
  IN IF n = Absent
       THEN [success |-> FALSE, errors |-> [q \in {namePath, arrayPath} |-> <<"required">>]]
       ELSE [success |-> keys = {}, errors |-> errs]

\* validateSchema() up to its await: the validator is called with the tree.
validateSchema(ps, n, its) ==
  Append(ps, [result |-> safeParse(n, its), overtaken |-> FALSE])

RECURSIVE validateSchemaTimes(_, _, _, _)
validateSchemaTimes(ps, n, its, count) ==
  IF count = 0 THEN ps
  ELSE validateSchemaTimes(validateSchema(ps, n, its), n, its, count - 1)

\* validateSchema() after its await: what a settled result assigns.
\* (A variant that merges the result into the map instead of replacing it.)
ResultErrorsMerged(r) ==
  IF r.success THEN EmptyMap
  ELSE [q \in DOMAIN errors \cup DOMAIN r.errors |->
          IF q \in DOMAIN r.errors THEN r.errors[q] ELSE errors[q]]

ResultErrors(r) == IF r.success THEN EmptyMap ELSE r.errors
\* (A variant that reports every settled verdict as valid.)
ResultValidAlways(r) == TRUE

ResultValid(r) == r.success

Min(a, b) == IF a < b THEN a ELSE b
Max(a, b) == IF a > b THEN a ELSE b

Bump(w, writes, calls) ==
  [writes |-> Min(w.writes + writes, 2), calls |-> Min(w.calls + calls, 3)]

\* ------------------------------------------- compiled paths, field views
\* validator.getPaths(): the zod adapter's getAllPaths lists an object's keys
\* in order, each array followed by its element under the ordinal 0; a custom
\* validator lists its own keys.
getPaths(a) ==
  IF a = "custom" THEN <<namePath, arrayPath>>
  ELSE <<namePath, arrayPath, ElemPath(0), ElemField(0), TagsPath(0),
         TagsPath(0) \o <<"0">>>>

\* Map.keys().next().value is deleted: the key inserted first
evictOldestFromMap(keys) == IF keys = <<>> THEN keys ELSE Tail(keys)

\* (A variant that never evicts.)
compilePathUnbounded(pc, path) ==
  IF path \in Range(pc) THEN pc ELSE Append(pc, path)

\* RuneForm.compilePath(path): what it does to the keys of _pathCache
compilePath(pc, path) ==
  IF path \in Range(pc) THEN pc
  ELSE Append(IF Len(pc) >= MaxPathCache THEN evictOldestFromMap(pc) ELSE pc, path)

\* The constructor compiles every declared path in order.
RECURSIVE compileAll(_, _)
compileAll(pc, paths) ==
  IF paths = <<>> THEN pc
  ELSE compileAll(compilePath(pc, Head(paths)), Tail(paths))

\* path.split('.').map(seg => /^\d+$/.test(seg) ? '0' : seg).join('.')
normalizedPath(path) ==
  [n \in 1..Len(path) |-> IF isArrayIndex(path[n]) THEN "0" ELSE path[n]]

\* _validPaths.has(normalizedPath): the constructor fills the set with the
\* declared paths, and dispose() empties it together with the tree.
validPaths == IF name = Absent THEN {} ELSE Range(getPaths(adapter))

\* getField(path) hands out a view of the form: the cached one, or a new one
\* for a declared path. Otherwise it hands out an object literal that no
\* accessor ties to the form.
IsLive(fc, path) == path \in Range(fc) \/ normalizedPath(path) \in validPaths

\* (A variant that caches the view of an undeclared path too.)
getFieldCachesAll(fc, path) ==
  IF path \in Range(fc) THEN fc
  ELSE Append(IF Len(fc) >= MaxFieldCache THEN evictOldestFromMap(fc) ELSE fc, path)

\* getField(path): what it does to the keys of _fieldCache
getField(fc, path) ==
  IF path \in Range(fc) \/ ~IsLive(fc, path) THEN fc
  ELSE Append(IF Len(fc) >= MaxFieldCache THEN evictOldestFromMap(fc) ELSE fc, path)

\* helpers.ts clearStaleFieldCacheEntries: key.startsWith(arrayPath)
clearStaleFieldCacheEntries(fc, path) ==
  SelectSeq(fc, LAMBDA key : ~StartsWith(key, path))

\* (A variant that drops the entry of the array's own path too.)
clearStalePathCacheEntriesWithOwn(pc, path) ==
  SelectSeq(pc, LAMBDA key : ~StartsWith(key, path))

\* helpers.ts clearStalePathCacheEntries: key.startsWith(arrayPath + '.')
clearStalePathCacheEntries(pc, path) ==
  SelectSeq(pc, LAMBDA key : ~StartsWithDot(key, path))

\* ---------------------------------------------- compiled path accessors
\* A tree of plain JavaScript values is the map from each path it holds a
\* value at to the kind of that value: an object, an array, null, or one of
\* two primitives. The root, at the empty path, is an object. A path it does
\* not hold reads as undefined.
Kinds == {"object", "array", "null", "p0", "p1"}

KindAt(tree, path) == IF path \in DOMAIN tree THEN tree[path] ELSE Undefined

\* typeof v === 'object'
TypeofObject(kind) == kind \in {"object", "array", "null"}

\* compilePath(path).get(obj), from segment i on
RECURSIVE CompiledGet(_, _, _)
CompiledGet(tree, keys, i) ==
  LET current == KindAt(tree, SubSeq(keys, 1, i - 1))
  IN IF i > Len(keys) THEN current
     ELSE IF current \in {"null", Undefined} \/ ~TypeofObject(current) THEN Undefined
     ELSE CompiledGet(tree, keys, i + 1)

\* current[key] = value: the value and whatever it held are replaced
AssignAt(tree, path, kind) ==
  [q \in {k \in DOMAIN tree : ~StartsWith(k, path)} \cup {path} |->
     IF q = path THEN kind ELSE tree[q]]

\* compilePath(path).set(obj, value), from segment i on: the tree it leaves,
\* and whether it threw. An assignment to a property of null throws a
\* TypeError, and so does one to a property of a primitive in a module.
RECURSIVE CompiledSet(_, _, _, _)
CompiledSet(tree, keys, value, i) ==
  LET current == KindAt(tree, SubSeq(keys, 1, i - 1))
      next == SubSeq(keys, 1, i)
  IN IF i >= Len(keys)
       THEN [tree |-> IF current \in {"object", "array"}
                        THEN AssignAt(tree, next, value) ELSE tree,
             threw |-> FALSE]
     ELSE IF \/ ~TypeofObject(current)
             \/ current = "null"
             \/ next \notin DOMAIN tree
             \/ ~TypeofObject(tree[next])
       THEN IF current \in {"object", "array"}
              THEN CompiledSet(AssignAt(tree, next,
                                        IF isArrayIndex(keys[i + 1]) THEN "array"
                                        ELSE "object"),
                               keys, value, i + 1)
              ELSE [tree |-> tree, threw |-> TRUE]
     ELSE CompiledSet(tree, keys, value, i + 1)

\* ------------------------------------------------------------------ Init
InitialItems == UNION {[1..n -> Vals] : n \in 0..MaxInit}

FreshItems(vals) == [n \in 1..Len(vals) |-> Plain(vals[n])]

InitForm(a) ==
  /\ adapter = a
  /\ initialData \in [name : Vals, items : InitialItems]
  /\ name = initialData.name
  /\ items = FreshItems(initialData.items)
  /\ touched = EmptyMap
  /\ errors = EmptyMap
  /\ customErrors = EmptyMap
  /\ isValid = FALSE
  /\ isValidating = FALSE
  /\ passes = <<>>
  /\ pendingArrayValidation = {}
  /\ microtasks = <<>>
  /\ pathCache = compileAll(<<>>, getPaths(a))
  /\ fieldCache = <<>>
  /\ effectDirty = TRUE
  /\ validationTimeout = FALSE
  /\ win = [writes |-> 0, calls |-> 0]
  /\ lastSwap = <<>>
  /\ lastOvertaken = FALSE
  /\ lastThrew = FALSE
  /\ settledWithCustom = FALSE
  /\ resets = 0
  /\ disposals = 0
  /\ lastSubmit = <<>>
  /\ inCall = <<>>
  /\ steps = 0

InitFor(a) == InitForm(a) /\ probe = <<>>

\* RuneForm.fromSchema(schema, initialData)
Init == InitFor("zod")

\* RuneForm.fromCustom(validator, initialData)
InitCustom == InitFor("custom")

\* A call of the public surface.
Call ==
  /\ steps' = steps + 1
  /\ lastSwap' = <<>>
  /\ resets' = 0
  /\ inCall' = <<>>
  /\ disposals' = 0
  /\ lastSubmit' = <<>>

\* A step of the event loop.
Event ==
  /\ steps' = steps
  /\ lastSwap' = <<>>
  /\ resets' = 0
  /\ inCall' = <<>>
  /\ disposals' = 0
  /\ lastSubmit' = <<>>

\* -------------------------------------------------- writes to the tree
others == <<adapter, initialData, probe, errors, customErrors, isValid, lastOvertaken,
           lastThrew, settledWithCustom>>
caches == <<pathCache, fieldCache>>
scheduler == <<pendingArrayValidation, microtasks, effectDirty, validationTimeout>>

\* form.data.name = v: the set trap of the tree's wrapper
WriteName(v) ==
  /\ Call
  /\ name' = v
  /\ IF name # v
       THEN /\ Len(passes) < MaxInFlight
            /\ touched' = Put(touched, namePath, TRUE)
            /\ passes' = validateSchema(passes, v, items)
            /\ isValidating' = TRUE
            /\ win' = Bump(win, 1, 1)
       ELSE UNCHANGED <<touched, passes, isValidating, win>>
  /\ UNCHANGED <<items, others, scheduler, caches>>

\* form.data.items[i].x = v: the array wrapper's get trap hands out the
\* element's wrapper, the assignment runs the set trap of every wrapper around
\* the element
WriteElem(i, v) ==
  LET slot == items[i + 1]
      chain == ProxyChain(slot, i)
      its == [items EXCEPT ![i + 1] = [createReactiveData(slot, i) EXCEPT !.x = v]]
  IN /\ Call
     /\ items' = its
     /\ IF slot.x # v
          THEN /\ Len(passes) + Len(chain) <= MaxInFlight
               /\ touched' = TouchChain(touched, chain)
               /\ passes' = validateSchemaTimes(passes, name, its, Len(chain))
               /\ isValidating' = TRUE
               /\ win' = Bump(win, 1, Len(chain))
          ELSE UNCHANGED <<touched, passes, isValidating, win>>
     /\ UNCHANGED <<name, others, scheduler, caches>>

\* form.data.items[i] = form.data.items[i]: the get trap of the array wrapper
\* hands out the element's wrapper, and the set trap compares it with
\* target[i], the value the array holds, which is not that wrapper; it stores
\* the wrapper and runs _handleFieldChange("items.i").
WriteSameElem(i) ==
  LET its == [items EXCEPT ![i + 1] = StoreProxy(createReactiveData(items[i + 1], i), i)]
  IN /\ Call
     /\ Len(items[i + 1].wraps) < MaxWrap
     /\ Len(passes) < MaxInFlight
     /\ items' = its
     /\ touched' = Put(touched, ElemPath(i), TRUE)
     /\ passes' = validateSchema(passes, name, its)
     /\ isValidating' = TRUE
     /\ UNCHANGED <<name, others, scheduler, caches, win>>

\* getField("name").value = v: compiled.set through the wrapper, then the
\* setter's own markTouched and validateSchema
SetFieldName(v) ==
  LET calls == IF name # v THEN 2 ELSE 1
  IN /\ Call
     /\ Len(passes) + calls <= MaxInFlight
     /\ name' = v
     /\ touched' = Put(touched, namePath, TRUE)
     /\ passes' = validateSchemaTimes(passes, v, items, calls)
     /\ isValidating' = TRUE
     /\ win' = IF name # v THEN Bump(win, 1, calls) ELSE win
     /\ pathCache' = compilePath(pathCache, namePath)
     /\ fieldCache' = getField(fieldCache, namePath)
     /\ UNCHANGED <<items, others, scheduler>>

\* getField("items.i.x").value = v for an element the array holds, where
\* getField hands out a view of the form
SetFieldElem(i, v) ==
  LET slot == items[i + 1]
      chain == ProxyChain(slot, i)
      its == [items EXCEPT ![i + 1] = [createReactiveData(slot, i) EXCEPT !.x = v]]
      calls == IF slot.x # v THEN Len(chain) + 1 ELSE 1
  IN /\ Call
     /\ IsLive(fieldCache, ElemField(i))
     /\ Len(passes) + calls <= MaxInFlight
     /\ items' = its
     /\ touched' = Put(IF slot.x # v THEN TouchChain(touched, chain) ELSE touched,
                       ElemField(i), TRUE)
     /\ passes' = validateSchemaTimes(passes, name, its, calls)
     /\ isValidating' = TRUE
     /\ win' = IF slot.x # v THEN Bump(win, 1, calls) ELSE win
     /\ pathCache' = compilePath(pathCache, ElemField(i))
     /\ fieldCache' = getField(fieldCache, ElemField(i))
     /\ UNCHANGED <<name, others, scheduler>>

\* Paths the validator does not declare: the one of the library's test, and a
\* key the element schema does not have.
UndeclaredPaths == {<<"notAField">>, ElemPath(0) \o <<"y">>}

\* getField(path).value = v where getField hands out the object literal: the
\* path is compiled, the assignment sets a property of the literal
SetFieldInert(path, v) ==
  /\ Call
  /\ ~IsLive(fieldCache, path)
  /\ pathCache' = compilePath(pathCache, path)
  /\ fieldCache' = getField(fieldCache, path)
  /\ UNCHANGED <<name, items, touched, others, scheduler, passes, isValidating, win>>

\* getField(path).value = v
FieldWrite(path, v) ==
  \/ path = namePath /\ SetFieldName(v)
  \/ \E i \in 0..(Len(items) - 1) : path = ElemField(i) /\ SetFieldElem(i, v)
  \/ SetFieldInert(path, v)

\* getField(path), the view not used
GetField(path) ==
  /\ Call
  /\ pathCache' = compilePath(pathCache, path)
  /\ fieldCache' = getField(fieldCache, path)
  /\ UNCHANGED <<name, items, touched, others, scheduler, passes, isValidating, win>>

\* compiled.get(_data) for the paths of scalar fields
ValueAt(path) ==
  IF path = namePath THEN name
  ELSE IF \E i \in 0..(Len(items) - 1) : path = ElemField(i)
    THEN items[parseInt(path[2]) + 1].x
  ELSE Undefined

MessagesAt(m, path) == IF path \in DOMAIN m THEN m[path] ELSE <<>>

\* (A variant of the error getter that looks at the custom errors first.)
firstErrorCustomFirst(schemaMessages, customMessages) ==
  IF customMessages # <<>> THEN customMessages[1]
  ELSE IF schemaMessages # <<>> THEN schemaMessages[1]
  ELSE Undefined

\* The error getter: self.errors[path]?.[0] ?? self.customErrors[path]?.[0] ?? undefined
firstError(schemaMessages, customMessages) ==
  IF schemaMessages # <<>> THEN schemaMessages[1]
  ELSE IF customMessages # <<>> THEN customMessages[1]
  ELSE Undefined

\* What the getters of the object getField(path) hands out read: those of
\* _createFieldObject, or the properties of the object literal
FieldView(path) ==
  IF IsLive(fieldCache, path)
    THEN [value |-> ValueAt(path),
          error |-> firstError(MessagesAt(errors, path), MessagesAt(customErrors, path)),
          errors |-> MessagesAt(errors, path) \o MessagesAt(customErrors, path),
          touched |-> IF path \in DOMAIN touched THEN touched[path] ELSE FALSE]
    ELSE [value |-> Undefined, error |-> Undefined, errors |-> <<>>, touched |-> FALSE]

\* ------------------------------------------------ reactive array wrapper
\* Array.prototype.splice(start, deleteCount, ...new)
NativeSplice(its, start, deleteCount, new) ==
  LET len == Len(its)
      from == IF start < 0 THEN Max(len + start, 0) ELSE Min(start, len)
      cnt == IF deleteCount = Omitted THEN len - from
             ELSE Min(Max(deleteCount, 0), len - from)
  IN SubSeq(its, 1, from) \o new \o SubSeq(its, from + cnt + 1, len)

\* Array.prototype.sort((a, b) => a.x - b.x), which is stable: the ordinal
\* (from 0) the element at ordinal i moves to
SortedOrdinal(its, i) ==
  Cardinality({k \in 1..Len(its) : \/ its[k].x < its[i + 1].x
                                   \/ (its[k].x = its[i + 1].x /\ k < i + 1)})

\* Array.prototype.reverse(): the ordinal the element at ordinal i moves to
ReversedOrdinal(its, i) == Len(its) - 1 - i

NativeMethod(its, methodName, start, deleteCount, new) ==
  CASE methodName = "splice" -> NativeSplice(its, start, deleteCount, new)
    [] methodName = "push" -> its \o new
    [] methodName = "pop" -> SubSeq(its, 1, Len(its) - 1)
    [] methodName = "shift" -> SubSeq(its, 2, Len(its))
    [] methodName = "unshift" -> new \o its
    [] methodName = "reverse" ->
         [n \in 1..Len(its) |-> its[Len(its) + 1 - n]]
    [] methodName = "sort" ->
         [n \in 1..Len(its) |->
            its[CHOOSE k \in 1..Len(its) : SortedOrdinal(its, k - 1) = n - 1]]

\* (A variant whose pop takes the last ordinal from the length after the pop.)
handleArrayMethodTouchedStateFromTarget(methodName, start, deleteCount, insertCount, previousLength) ==
  CASE methodName = "splice" ->
         [start |-> start,
          deleteCount |-> IF deleteCount = Omitted THEN 0 ELSE deleteCount,
          insertCount |-> insertCount, lastIndexBeforePop |-> NoProxy]
    [] methodName = "pop" ->
         [start |-> 0, deleteCount |-> 0, insertCount |-> 0,
          lastIndexBeforePop |-> Max(previousLength - 1, 0) - 1]
    [] methodName = "shift" ->
         [start |-> 0, deleteCount |-> 1, insertCount |-> 0, lastIndexBeforePop |-> NoProxy]
    [] methodName = "unshift" ->
         [start |-> 0, deleteCount |-> 0, insertCount |-> insertCount,
          lastIndexBeforePop |-> NoProxy]
    [] OTHER ->
         [start |-> 0, deleteCount |-> 0, insertCount |-> 0, lastIndexBeforePop |-> NoProxy]

\* helpers.ts handleArrayMethodTouchedState: the remap an intercepted call asks for
handleArrayMethodTouchedState(methodName, start, deleteCount, insertCount, previousLength) ==
  CASE methodName = "splice" ->
         [start |-> start,
          deleteCount |-> IF deleteCount = Omitted THEN 0 ELSE deleteCount,
          insertCount |-> insertCount, lastIndexBeforePop |-> NoProxy]
    [] methodName = "pop" ->
         [start |-> 0, deleteCount |-> 0, insertCount |-> 0,
          lastIndexBeforePop |-> previousLength - 1]
    [] methodName = "shift" ->
         [start |-> 0, deleteCount |-> 1, insertCount |-> 0, lastIndexBeforePop |-> NoProxy]
    [] methodName = "unshift" ->
         [start |-> 0, deleteCount |-> 0, insertCount |-> insertCount,
          lastIndexBeforePop |-> NoProxy]
    [] OTHER ->
         [start |-> 0, deleteCount |-> 0, insertCount |-> 0, lastIndexBeforePop |-> NoProxy]

\* RuneForm._handleArrayMethodTouchedState: the remap of the touched map
handleArrayMethodTouched(t, methodName, start, deleteCount, insertCount, previousLength) ==
  LET result == handleArrayMethodTouchedState(methodName, start, deleteCount,
                                              insertCount, previousLength)
  IN CASE methodName = "splice" ->
            LET removed == IF result.deleteCount > 0
                             THEN syncTouchedStateForArrayRemoval(t, arrayPath, result.start,
                                                                  result.deleteCount)
                             ELSE t
            IN IF result.insertCount > 0
                 THEN syncTouchedStateForArrayInsertion(removed, arrayPath, result.start,
                                                        result.insertCount)
                 ELSE removed
       [] methodName = "pop" ->
            IF result.lastIndexBeforePop >= 0
              THEN syncTouchedStateForArrayRemoval(t, arrayPath, result.lastIndexBeforePop, 1)
              ELSE t
       [] methodName = "shift" ->
            syncTouchedStateForArrayRemoval(t, arrayPath, result.start, result.deleteCount)
       [] methodName = "unshift" ->
            syncTouchedStateForArrayInsertion(t, arrayPath, result.start, result.insertCount)
       [] OTHER -> t

\* The wrapped mutating method of the array wrapper: the native call, then
\* markTouched(parentPath), the remap, and for splice the re-wrapping.
wrappedMethod(t, its, methodName, start, deleteCount, new) ==
  LET after == NativeMethod(its, methodName, start, deleteCount, new)
      remapped == handleArrayMethodTouched(Put(t, arrayPath, TRUE), methodName, start,
                                           deleteCount, Len(new), Len(its))
  IN [items |-> IF methodName = "splice" THEN ensureArrayElementsReactive(after) ELSE after,
      touched |-> remapped]

\* (A variant that never queues the revalidation.)
DebouncedArrayValidationDropped(path) == UNCHANGED <<pendingArrayValidation, microtasks>>

\* _debouncedArrayValidation(path)
DebouncedArrayValidation(path) ==
  IF path \in pendingArrayValidation
    THEN UNCHANGED <<pendingArrayValidation, microtasks>>
    ELSE /\ pendingArrayValidation' = pendingArrayValidation \cup {path}
         /\ microtasks' = Append(microtasks, path)

NewItems(n, v) == [k \in 1..n |-> Plain(v)]

CanWrap(its) == \A n \in 1..Len(its) : Len(its[n].wraps) < MaxWrap

\* form.data.items.<methodName>(...): a mutating method called on the wrapped array
ArrayMethod(methodName, start, deleteCount, new) ==
  LET r == wrappedMethod(touched, items, methodName, start, deleteCount, new)
  IN /\ Call
     /\ Len(r.items) <= MaxLen
     /\ methodName = "splice" => CanWrap(items)
     /\ items' = r.items
     /\ touched' = r.touched
     /\ DebouncedArrayValidation(arrayPath)
     /\ fieldCache' = clearStaleFieldCacheEntries(fieldCache, arrayPath)
     /\ pathCache' = clearStalePathCacheEntries(pathCache, arrayPath)
     /\ UNCHANGED <<name, others, passes, isValidating, win, effectDirty, validationTimeout>>

ArrPush(v) == ArrayMethod("push", 0, 0, NewItems(1, v))
ArrPop == ArrayMethod("pop", 0, 0, <<>>)
ArrShift == ArrayMethod("shift", 0, 0, <<>>)
ArrUnshift(n) == ArrayMethod("unshift", 0, 0, NewItems(n, 0))
ArrSplice(start, deleteCount, n) ==
  ArrayMethod("splice", start, deleteCount, NewItems(n, 0))
ArrReverse == ArrayMethod("reverse", 0, 0, <<>>)
ArrSort == ArrayMethod("sort", 0, 0, <<>>)

\* The same wrapped method taken one statement at a time (push, pop, shift,
\* unshift): the body of wrappedMethod is
\*   previousLength = target.length; result = method.apply(target, args);
\*   this.markTouched(parentPath); this._debouncedArrayValidation(parentPath);
\*   this._handleArrayMethodTouchedState(...); this._clearStaleFieldCacheEntries(parentPath)
Statement ==
  /\ steps' = steps
  /\ lastSwap' = <<>>
  /\ resets' = 0
  /\ disposals' = 0
  /\ lastSubmit' = <<>>

WrappedApply(methodName, new) ==
  /\ inCall = <<>>
  /\ Len(NativeMethod(items, methodName, 0, 0, new)) <= MaxLen
  /\ steps' = steps + 1
  /\ lastSwap' = <<>> /\ resets' = 0 /\ disposals' = 0 /\ lastSubmit' = <<>>
  /\ items' = NativeMethod(items, methodName, 0, 0, new)
  /\ inCall' = <<[methodName |-> methodName, insertCount |-> Len(new),
                  previousLength |-> Len(items), done |-> <<>>]>>
  /\ UNCHANGED <<name, touched, others, scheduler, caches, passes, isValidating, win>>

WrappedMarkTouched ==
  /\ inCall # <<>> /\ inCall[1].done = <<>>
  /\ Statement
  /\ touched' = Put(touched, arrayPath, TRUE)
  /\ inCall' = <<[inCall[1] EXCEPT !.done = Append(@, "markTouched")]>>
  /\ UNCHANGED <<name, items, others, scheduler, caches, passes, isValidating, win>>

WrappedDebounce ==
  /\ inCall # <<>> /\ inCall[1].done = <<"markTouched">>
  /\ Statement
  /\ DebouncedArrayValidation(arrayPath)
  /\ inCall' = <<[inCall[1] EXCEPT !.done = Append(@, "_debouncedArrayValidation")]>>
  /\ UNCHANGED <<name, items, touched, others, caches, passes, isValidating, win,
                 effectDirty, validationTimeout>>

WrappedRemap ==
  /\ inCall # <<>> /\ Len(inCall[1].done) = 2
  /\ Statement
  /\ touched' = handleArrayMethodTouched(touched, inCall[1].methodName, 0, 0,
                                         inCall[1].insertCount, inCall[1].previousLength)
  /\ inCall' = <<[inCall[1] EXCEPT !.done = Append(@, "_handleArrayMethodTouchedState")]>>
  /\ UNCHANGED <<name, items, others, scheduler, caches, passes, isValidating, win>>

WrappedReturn ==
  /\ inCall # <<>> /\ Len(inCall[1].done) = 3
  /\ Statement
  /\ fieldCache' = clearStaleFieldCacheEntries(fieldCache, arrayPath)
  /\ pathCache' = clearStalePathCacheEntries(pathCache, arrayPath)
  /\ inCall' = <<>>
  /\ UNCHANGED <<name, items, touched, others, scheduler, passes, isValidating, win>>

\* ------------------------------------------------- engine array operations
\* _executeArrayOperation reads the array through the wrapped tree (this._data is
\* the wrapper the constructor stored), so the operation runs on the array
\* wrapper; afterwards it marks the path touched and clears the stale cache
\* entries once more. It returns at once if _pathCache does not hold the path.

\* push(path, value)
EnginePush(v) ==
  LET r == wrappedMethod(touched, items, "push", 0, 0, NewItems(1, v))
  IN /\ Call
     /\ IF arrayPath \in Range(pathCache)
          THEN /\ Len(r.items) <= MaxLen
               /\ items' = r.items
               /\ touched' = Put(r.touched, arrayPath, TRUE)
               /\ DebouncedArrayValidation(arrayPath)
               /\ fieldCache' = clearStaleFieldCacheEntries(fieldCache, arrayPath)
               /\ pathCache' = clearStalePathCacheEntries(pathCache, arrayPath)
          ELSE UNCHANGED <<items, touched, pendingArrayValidation, microtasks, caches>>
     /\ UNCHANGED <<name, others, passes, isValidating, win, effectDirty, validationTimeout>>

\* splice(path, start, deleteCount?, ...items): arr.splice on the wrapper, then
\* the engine's own remap from the array as the splice left it
EngineSpliceRemap(t, start, actualDeleteCount, insertCount) ==
  LET removed == IF actualDeleteCount > 0
                   THEN syncTouchedStateForArrayRemoval(t, arrayPath, start,
                                                        actualDeleteCount)
                   ELSE t
  IN IF insertCount > 0
       THEN syncTouchedStateForArrayInsertion(removed, arrayPath, start, insertCount)
       ELSE removed

\* what follows arr.splice(...) in splice(): r is the array and the touched map
\* as the wrapped splice left them
EngineSpliceAfter(r, start, deleteCount, insertCount) ==
  [items |-> r.items,
   touched |-> Put(EngineSpliceRemap(r.touched, start,
                                     IF deleteCount # Omitted THEN deleteCount
                                     ELSE Len(r.items) - start,
                                     insertCount),
                   arrayPath, TRUE)]

EngineSpliceResult(t, its, start, deleteCount, new) ==
  EngineSpliceAfter(wrappedMethod(t, its, "splice", start, deleteCount,
                                  IF deleteCount # Omitted THEN new ELSE <<>>),
                    start, deleteCount, Len(new))

EngineSplice(start, deleteCount, n) ==
  LET r == EngineSpliceResult(touched, items, start, deleteCount, NewItems(n, 0))
  IN /\ Call
     /\ IF arrayPath \in Range(pathCache)
          THEN /\ Len(r.items) <= MaxLen
               /\ CanWrap(items)
               /\ items' = r.items
               /\ touched' = r.touched
               /\ DebouncedArrayValidation(arrayPath)
               /\ fieldCache' = clearStaleFieldCacheEntries(fieldCache, arrayPath)
               /\ pathCache' = clearStalePathCacheEntries(pathCache, arrayPath)
          ELSE UNCHANGED <<items, touched, pendingArrayValidation, microtasks, caches>>
     /\ UNCHANGED <<name, others, passes, isValidating, win, effectDirty, validationTimeout>>

\* ------------------------------------------- an array inside an element
\* Reading items[i].tags through the wrappers: the array wrapper hands out the
\* wrapper of the element (the cached one, or one made for "items.i"), and that
\* wrapper's get trap hands out the wrapper of the tags array (the cached one,
\* or one made for the element wrapper's path). For an element the array holds
\* as a plain object: no splice or swap has stored a wrapper in its slot.
TagsBoundOf(slot, i) ==
  IF slot.tagsBound # NoProxy THEN slot.tagsBound ELSE BoundOf(slot, i)

ReadTags(slot, i) ==
  [slot EXCEPT !.cached = BoundOf(slot, i), !.tagsBound = TagsBoundOf(slot, i)]

\* form.data.items[i].tags.push(v): the wrapped push of the tags wrapper, whose
\* parentPath is the path the wrapper was made for
TagsPush(i, v) ==
  LET slot == items[i + 1]
      parentPath == TagsPath(TagsBoundOf(slot, i))
  IN /\ Call
     /\ slot.wraps = <<>>
     /\ Len(slot.tags) < MaxTags
     /\ items' = [items EXCEPT ![i + 1] = [ReadTags(slot, i) EXCEPT !.tags = Append(@, v)]]
     /\ touched' = Put(touched, parentPath, TRUE)
     /\ DebouncedArrayValidation(parentPath)
     /\ fieldCache' = clearStaleFieldCacheEntries(fieldCache, parentPath)
     /\ pathCache' = clearStalePathCacheEntries(pathCache, parentPath)
     /\ UNCHANGED <<name, others, passes, isValidating, win, effectDirty, validationTimeout>>

\* push("items.i.tags", v): _executeArrayOperation returns at once if _pathCache
\* does not hold the path; else it reads the array through the wrappers, runs
\* the wrapped push, marks the path touched and clears the entries below it
EnginePushNested(i, v) ==
  LET path == TagsPath(i)
      slot == items[i + 1]
      parentPath == TagsPath(TagsBoundOf(slot, i))
  IN /\ Call
     /\ slot.wraps = <<>>
     /\ IF path \in Range(pathCache)
          THEN /\ Len(slot.tags) < MaxTags
               /\ items' = [items EXCEPT ![i + 1] =
                                          [ReadTags(slot, i) EXCEPT !.tags = Append(@, v)]]
               /\ touched' = Put(Put(touched, parentPath, TRUE), path, TRUE)
               /\ DebouncedArrayValidation(parentPath)
               /\ fieldCache' = clearStaleFieldCacheEntries(
                                  clearStaleFieldCacheEntries(fieldCache, parentPath), path)
               /\ pathCache' = clearStalePathCacheEntries(
                                 clearStalePathCacheEntries(pathCache, parentPath), path)
          ELSE UNCHANGED <<items, touched, pendingArrayValidation, microtasks, caches>>
     /\ UNCHANGED <<name, others, passes, isValidating, win, effectDirty, validationTimeout>>

\* swap(path, i, j): [arr[i], arr[j]] = [arr[j], arr[i]] on the array wrapper.
\* Both reads go through the get trap and yield element wrappers; each
\* assignment goes through the set trap, which stores the wrapper in the
\* array and, the stored value having changed, runs _handleFieldChange.
EngineSwapResult(t, its, i, j) ==
  LET read == [its EXCEPT ![j + 1] = createReactiveData(its[j + 1], j),
                          ![i + 1] = createReactiveData(its[i + 1], i)]
      pj == StoreProxy(read[j + 1], j)
      pi == StoreProxy(read[i + 1], i)
      first == [read EXCEPT ![i + 1] = pj]
      second == [first EXCEPT ![j + 1] = pi]
      t1 == Put(t, ElemPath(i), TRUE)
      t2 == IF i # j THEN Put(t1, ElemPath(j), TRUE) ELSE t1
      synced == syncTouchedStateForArraySwap(t2, arrayPath, i, j)
  IN [first |-> first, items |-> second, touched |-> Put(synced, arrayPath, TRUE),
      calls |-> IF i # j THEN 2 ELSE 1]

EngineSwap(i, j) ==
  LET r == EngineSwapResult(touched, items, i, j)
      one == validateSchema(passes, name, r.first)
  IN /\ steps' = steps + 1
     /\ lastSwap' = <<i, j, touched>>
     /\ resets' = 0
     /\ inCall' = <<>>
     /\ disposals' = 0
     /\ lastSubmit' = <<>>
     /\ IF arrayPath \in Range(pathCache)
          THEN /\ Len(items[i + 1].wraps) < MaxWrap /\ Len(items[j + 1].wraps) < MaxWrap
               /\ Len(passes) + r.calls <= MaxInFlight
               /\ items' = r.items
               /\ touched' = r.touched
               /\ passes' = IF i # j THEN validateSchema(one, name, r.items) ELSE one
               /\ isValidating' = TRUE
               /\ fieldCache' = clearStaleFieldCacheEntries(fieldCache, arrayPath)
               /\ pathCache' = clearStalePathCacheEntries(pathCache, arrayPath)
          ELSE UNCHANGED <<items, touched, passes, isValidating, caches>>
     /\ UNCHANGED <<name, others, scheduler, win>>

\* form.data.items[i] = {x: v}: the set trap of the array wrapper stores the
\* new object and, the stored value having changed, runs _handleFieldChange
AssignElem(i, v) ==
  LET its == [items EXCEPT ![i + 1] = Plain(v)]
  IN /\ Call
     /\ Len(passes) < MaxInFlight
     /\ items' = its
     /\ touched' = Put(touched, ElemPath(i), TRUE)
     /\ passes' = validateSchema(passes, name, its)
     /\ isValidating' = TRUE
     /\ UNCHANGED <<name, others, scheduler, caches, win>>

\* form.data.items.length = n: the set trap returns true for 'length' before
\* it touches the target
AssignLength(n) ==
  /\ Call
  /\ UNCHANGED <<name, items, touched, others, scheduler, caches, passes, isValidating, win>>

\* An element slot that holds undefined.
Hole == [x |-> Absent, wraps |-> <<>>, cached |-> NoProxy, tags |-> <<>>, tagsBound |-> NoProxy]

\* target[k] = v for an integer k: a negative k names a plain property of the
\* array object, not an element; k = length appends.
AssignIndex(its, k, v) ==
  IF k < 0 THEN its
  ELSE IF k >= Len(its) THEN Append(its, v)
  ELSE [its EXCEPT ![k + 1] = v]

\* swap(path, i, j) with i or j outside 0 .. length-1: swap() and
\* _executeArrayOperation check no index. The get trap reads undefined at an
\* index the array does not hold, and the two assignments go through the set
\* trap as they are: undefined is stored over the element that is in range,
\* and that element's wrapper is stored at the other index.
EngineSwapOutside(i, j) ==
  LET inRange == 0..(Len(items) - 1)
      inI == i \in inRange
      inJ == j \in inRange
      read == [n \in 1..Len(items) |->
                 IF n - 1 \in {i, j} THEN createReactiveData(items[n], n - 1) ELSE items[n]]
      vi == IF inI THEN StoreProxy(read[i + 1], i) ELSE Hole
      vj == IF inJ THEN StoreProxy(read[j + 1], j) ELSE Hole
      first == AssignIndex(read, i, vj)
      second == AssignIndex(first, j, vi)
      changed == inI \/ inJ
      t2 == IF changed THEN Put(Put(touched, ElemPath(i), TRUE), ElemPath(j), TRUE)
            ELSE touched
      synced == syncTouchedStateForArraySwap(t2, arrayPath, i, j)
  IN /\ Call
     /\ ~(inI /\ inJ)
     /\ IF arrayPath \in Range(pathCache)
          THEN /\ Len(second) <= MaxLen
               /\ \A k \in {i, j} \cap inRange : Len(items[k + 1].wraps) < MaxWrap
               /\ Len(passes) + 2 <= MaxInFlight
               /\ items' = second
               /\ touched' = Put(synced, arrayPath, TRUE)
               /\ passes' = IF changed
                              THEN validateSchema(validateSchema(passes, name, first),
                                                  name, second)
                              ELSE passes
               /\ isValidating' = (isValidating \/ changed)
               /\ fieldCache' = clearStaleFieldCacheEntries(fieldCache, arrayPath)
               /\ pathCache' = clearStalePathCacheEntries(pathCache, arrayPath)
          ELSE UNCHANGED <<items, touched, passes, isValidating, caches>>
     /\ UNCHANGED <<name, others, scheduler, win>>

\* ------------------------------------------------------- touched, errors
MarkPaths == {namePath} \cup {ElemPath(i) : i \in 0..(MaxLen - 1)}
                        \cup {ElemField(i) : i \in 0..(MaxLen - 1)}

markTouched(path) ==
  /\ Call
  /\ touched' = Put(touched, path, TRUE)
  /\ UNCHANGED <<name, items, others, scheduler, caches, passes, isValidating, win>>

markFieldAsPristine(path) ==
  /\ Call
  /\ touched' = Put(touched, path, FALSE)
  /\ UNCHANGED <<name, items, others, scheduler, caches, passes, isValidating, win>>

\* markAllTouched(): for (const path of Object.keys(this.errors)) this.touched[path] = true
markAllTouched ==
  /\ Call
  /\ touched' = [q \in DOMAIN touched \cup DOMAIN errors |->
                   IF q \in DOMAIN errors THEN TRUE ELSE touched[q]]
  /\ UNCHANGED <<name, items, others, scheduler, caches, passes, isValidating, win>>

\* markAllAsPristine(): this.touched = {}
markAllAsPristine ==
  /\ Call
  /\ touched' = EmptyMap
  /\ effectDirty' = TRUE     \* touched was assigned
  /\ UNCHANGED <<name, items, others, caches, passes, isValidating, win,
                 pendingArrayValidation, microtasks, validationTimeout>>

\* setCustomError(path, message), setCustomErrors(path, messages) and the
\* error/errors setters of a field view
setCustomErrors(path, messages) ==
  /\ Call
  /\ customErrors' = Put(customErrors, path, messages)
  /\ settledWithCustom' = FALSE
  /\ UNCHANGED <<adapter, initialData, probe, name, items, touched, errors, isValid,
                 lastOvertaken, lastThrew, scheduler, caches, passes, isValidating, win>>

\* safePopulate(this.initialData): the zod adapter's resolveDefaults builds new
\* objects from the caller's data; the custom adapter's returns the caller's
\* object itself, which is the object the tree has been all along, as the
\* writes left it, holding whatever wrappers were stored in its array.
safePopulate ==
  IF adapter = "custom"
    THEN [name |-> name,
          items |-> [n \in 1..Len(items) |->
                      [items[n] EXCEPT !.cached = NoProxy, !.tagsBound = NoProxy]]]
    ELSE [name |-> initialData.name, items |-> FreshItems(initialData.items)]

\* (A variant that leaves the custom errors in place.)
resetKeepsCustomErrors ==
  /\ steps' = steps + 1
  /\ lastSwap' = <<>>
  /\ resets' = Min(resets + 1, 2)
  /\ inCall' = <<>>
  /\ disposals' = 0
  /\ lastSubmit' = <<>>
  /\ name' = safePopulate.name
  /\ items' = safePopulate.items
  /\ validationTimeout' = FALSE
  /\ errors' = EmptyMap
  /\ touched' = EmptyMap
  /\ isValid' = FALSE
  /\ pendingArrayValidation' = {}
  /\ effectDirty' = TRUE     \* _data and touched were assigned
  /\ settledWithCustom' = FALSE
  /\ fieldCache' = <<>>
  /\ UNCHANGED <<adapter, initialData, probe, customErrors, lastOvertaken, lastThrew,
                 microtasks, pathCache, passes, isValidating, win>>

reset ==
  /\ steps' = steps + 1
  /\ lastSwap' = <<>>
  /\ resets' = Min(resets + 1, 2)
  /\ inCall' = <<>>
  /\ disposals' = 0
  /\ lastSubmit' = <<>>
  /\ name' = safePopulate.name
  /\ items' = safePopulate.items
  /\ validationTimeout' = FALSE
  /\ errors' = EmptyMap
  /\ customErrors' = EmptyMap
  /\ touched' = EmptyMap
  /\ isValid' = FALSE
  /\ pendingArrayValidation' = {}
  /\ effectDirty' = TRUE     \* _data and touched were assigned
  /\ settledWithCustom' = FALSE
  /\ fieldCache' = <<>>
  /\ UNCHANGED <<adapter, initialData, probe, lastOvertaken, lastThrew, microtasks,
                 pathCache, passes, isValidating, win>>

\* ------------------------------------------------------- form.enhance
\* get enhance() returns this._enhance(): the handler's options are the default
\* {} of _enhance, and the action returned takes the element only, so the
\* parameter of use:form.enhance={parameter} reaches no one. The callbacks the
\* submit handler holds:
enhance(parameter) == {}

\* A submit event on the enhanced form: handleSubmit runs up to its await, in
\* validateSchema() up to the validator call.
Submit(parameter) ==
  /\ Call
  /\ Len(passes) < MaxInFlight
  /\ passes' = Append(passes, [result |-> safeParse(name, items), overtaken |-> FALSE,
                               options |-> enhance(parameter)])
  /\ isValidating' = TRUE
  /\ UNCHANGED <<name, items, touched, others, scheduler, caches, win>>

\* What handleSubmit does after the await, for the _errorCount the pass left
Invoked(options, errorCount, data, errorMap) ==
  IF errorCount = 0
    THEN IF "onSubmit" \in options
           THEN <<[callback |-> "onSubmit", argument |-> data]>> ELSE <<>>
    ELSE IF "onError" \in options
           THEN <<[callback |-> "onError", argument |-> errorMap]>> ELSE <<>>

\* The validator call of the handler's pass k settles: validateSchema() resumes
\* and assigns errors, isValid and _errorCount, then handleSubmit resumes.
SubmitResume(k) ==
  LET r == passes[k].result
      errorCount == IF r.success THEN 0 ELSE Cardinality(DOMAIN r.errors)
  IN /\ "options" \in DOMAIN passes[k]
     /\ steps' = steps
     /\ lastSwap' = <<>>
     /\ resets' = 0
     /\ inCall' = <<>>
     /\ disposals' = 0
     /\ lastSubmit' = <<[errorCount |-> errorCount,
                         invoked |-> Invoked(passes[k].options, errorCount,
                                             <<name, items>>, ResultErrors(r))]>>
     /\ errors' = ResultErrors(r)
     /\ isValid' = ResultValid(r)
     /\ isValidating' = FALSE
     /\ passes' = [n \in 1..(Len(passes) - 1) |->
                     IF n < k THEN [passes[n] EXCEPT !.overtaken = TRUE]
                     ELSE passes[n + 1]]
     /\ lastOvertaken' = passes[k].overtaken
     /\ lastThrew' = FALSE
     /\ settledWithCustom' = (settledWithCustom \/ \E q \in DOMAIN customErrors :
                                                     customErrors[q] # <<>>)
     /\ UNCHANGED <<adapter, initialData, probe, name, items, touched, customErrors,
                    scheduler, caches, win>>

\* (A variant that leaves the pending timer running.)
disposeKeepsTimer ==
  /\ steps' = steps + 1
  /\ lastSwap' = <<>>
  /\ resets' = 0
  /\ inCall' = <<>>
  /\ disposals' = Min(disposals + 1, 2)
  /\ lastSubmit' = <<>>
  /\ pathCache' = <<>>
  /\ fieldCache' = <<>>
  /\ pendingArrayValidation' = {}
  /\ name' = Absent
  /\ items' = <<>>
  /\ errors' = EmptyMap
  /\ customErrors' = EmptyMap
  /\ touched' = EmptyMap
  /\ isValid' = FALSE
  /\ isValidating' = FALSE
  /\ effectDirty' = TRUE     \* _data and touched were assigned
  /\ settledWithCustom' = FALSE
  /\ UNCHANGED <<adapter, initialData, probe, lastOvertaken, lastThrew, microtasks,
                 passes, win, validationTimeout>>

\* dispose(): the caches and the pending set are cleared, the timer is
\* cancelled, and _data, errors, customErrors and touched are assigned empty
\* objects (this._data directly, not through the data setter); the callbacks
\* already queued and the passes awaiting the validator stay as they are.
dispose ==
  /\ steps' = steps + 1
  /\ lastSwap' = <<>>
  /\ resets' = 0
  /\ inCall' = <<>>
  /\ disposals' = Min(disposals + 1, 2)
  /\ lastSubmit' = <<>>
  /\ pathCache' = <<>>
  /\ fieldCache' = <<>>
  /\ pendingArrayValidation' = {}
  /\ validationTimeout' = FALSE
  /\ name' = Absent
  /\ items' = <<>>
  /\ errors' = EmptyMap
  /\ customErrors' = EmptyMap
  /\ touched' = EmptyMap
  /\ isValid' = FALSE
  /\ isValidating' = FALSE
  /\ effectDirty' = TRUE     \* _data and touched were assigned
  /\ settledWithCustom' = FALSE
  /\ UNCHANGED <<adapter, initialData, probe, lastOvertaken, lastThrew, microtasks,
                 passes, win>>

\* --------------------------------------------------- validation scheduler
\* await form.validateSchema() called by the user
ValidateSchemaCall ==
  /\ Call
  /\ Len(passes) < MaxInFlight
  /\ passes' = validateSchema(passes, name, items)
  /\ isValidating' = TRUE
  /\ UNCHANGED <<name, items, touched, others, scheduler, caches, win>>

\* (A variant whose successful pass clears the custom errors with the schema
\* errors.)
ValidateSchemaDoneClearsCustom(k) ==
  LET r == passes[k].result
  IN /\ Event
     /\ errors' = ResultErrors(r)
     /\ customErrors' = IF r.success THEN EmptyMap ELSE customErrors
     /\ isValid' = ResultValid(r)
     /\ isValidating' = FALSE
     /\ passes' = [n \in 1..(Len(passes) - 1) |->
                     IF n < k THEN [passes[n] EXCEPT !.overtaken = TRUE]
                     ELSE passes[n + 1]]
     /\ lastOvertaken' = passes[k].overtaken
     /\ lastThrew' = FALSE
     /\ settledWithCustom' = settledWithCustom
     /\ UNCHANGED <<adapter, initialData, probe, name, items, touched, scheduler, caches,
                    win>>

\* The validator call of pass k settles and validateSchema() resumes.
ValidateSchemaDone(k) ==
  LET r == passes[k].result
  IN /\ Event
     /\ errors' = ResultErrors(r)
     /\ isValid' = ResultValid(r)
     /\ isValidating' = FALSE
     /\ passes' = [n \in 1..(Len(passes) - 1) |->
                     IF n < k THEN [passes[n] EXCEPT !.overtaken = TRUE]
                     ELSE passes[n + 1]]
     /\ lastOvertaken' = passes[k].overtaken
     /\ lastThrew' = FALSE
     /\ settledWithCustom' = (settledWithCustom \/ \E q \in DOMAIN customErrors :
                                                     customErrors[q] # <<>>)
     /\ UNCHANGED <<adapter, initialData, probe, name, items, touched, customErrors,
                    scheduler, caches, win>>

\* (A variant whose catch block empties the schema error map.)
ValidateSchemaThrowsClearsErrors(k) ==
  /\ Event
  /\ isValid' = FALSE
  /\ isValidating' = FALSE
  /\ errors' = EmptyMap
  /\ passes' = [n \in 1..(Len(passes) - 1) |->
                  IF n < k THEN [passes[n] EXCEPT !.overtaken = TRUE]
                  ELSE passes[n + 1]]
  /\ lastOvertaken' = passes[k].overtaken
  /\ lastThrew' = TRUE
  /\ UNCHANGED <<adapter, initialData, probe, name, items, touched, customErrors,
                 settledWithCustom, scheduler, caches, win>>

\* The validator call of pass k throws or its promise rejects: validateSchema()
\* resumes in its catch block, then its finally block.
ValidateSchemaThrows(k) ==
  /\ Event
  /\ isValid' = FALSE
  /\ isValidating' = FALSE
  /\ passes' = [n \in 1..(Len(passes) - 1) |->
                  IF n < k THEN [passes[n] EXCEPT !.overtaken = TRUE]
                  ELSE passes[n + 1]]
  /\ lastOvertaken' = passes[k].overtaken
  /\ lastThrew' = TRUE
  /\ UNCHANGED <<adapter, initialData, probe, name, items, touched, errors, customErrors,
                 settledWithCustom, scheduler, caches, win>>

\* The microtask queued by _debouncedArrayValidation runs.
RunMicrotask ==
  /\ microtasks # <<>>
  /\ Len(passes) < MaxInFlight
  /\ Event
  /\ microtasks' = Tail(microtasks)
  /\ pendingArrayValidation' = pendingArrayValidation \ {Head(microtasks)}
  /\ passes' = validateSchema(passes, name, items)
  /\ isValidating' = TRUE
  /\ UNCHANGED <<name, items, touched, others, caches, effectDirty, validationTimeout,
                 win>>

\* The constructor's $effect runs: it reads this._data and this.touched, so it is
\* due after construction and after each assignment of one of the two. It
\* clears the pending timer and sets a new one.
EffectRun ==
  /\ effectDirty
  /\ Event
  /\ effectDirty' = FALSE
  /\ validationTimeout' = TRUE
  /\ UNCHANGED <<name, items, touched, others, caches, passes, isValidating,
                 pendingArrayValidation, microtasks, win>>

\* 100 ms pass without a call of the public surface: the debounce window
\* closes, and the timer, if one is pending, fires validateSchema().
\* Microtasks and effects run before any timer.
DebounceElapse ==
  /\ microtasks = <<>> /\ ~effectDirty
  /\ validationTimeout \/ win # [writes |-> 0, calls |-> 0]
  /\ Event
  /\ IF validationTimeout
       THEN /\ Len(passes) < MaxInFlight
            /\ passes' = validateSchema(passes, name, items)
            /\ isValidating' = TRUE
       ELSE UNCHANGED <<passes, isValidating>>
  /\ validationTimeout' = FALSE
  /\ win' = [writes |-> 0, calls |-> 0]
  /\ UNCHANGED <<name, items, touched, others, caches, pendingArrayValidation,
                 microtasks, effectDirty>>

\* ------------------------------------------------------------------ Next
Indices == 0..(Len(items) - 1)
Starts == (0 - 1)..Len(items)
DeleteCounts == {Omitted, 0, 1, 2}

Writes ==
  \/ \E v \in Vals : WriteName(v)
  \/ \E i \in Indices, v \in Vals : WriteElem(i, v)
  \/ \E v \in Vals : SetFieldName(v)
  \/ \E i \in Indices, v \in Vals : SetFieldElem(i, v)

ArrayMethods ==
  \/ \E v \in Vals : ArrPush(v)
  \/ ArrPop
  \/ ArrShift
  \/ \E n \in 0..1 : ArrUnshift(n)
  \/ \E start \in Starts, dc \in DeleteCounts, n \in 0..1 :
       (dc = Omitted => n = 0) /\ ArrSplice(start, dc, n)

EngineOps ==
  \/ \E v \in Vals : EnginePush(v)
  \/ \E start \in Starts, dc \in DeleteCounts, n \in 0..1 :
       (dc = Omitted => n = 0) /\ EngineSplice(start, dc, n)
  \/ \E i \in Indices, j \in Indices : EngineSwap(i, j)

Marks ==
  \/ \E path \in MarkPaths : markTouched(path)
  \/ \E path \in MarkPaths : markFieldAsPristine(path)

Events ==
  \/ \E k \in 1..Len(passes) : ValidateSchemaDone(k)
  \/ RunMicrotask
  \/ EffectRun
  \/ DebounceElapse

\* Every call of the public surface, interleaved with the event loop.
Next ==
  \/ /\ steps < MaxOps
     /\ \/ Writes
        \/ ArrayMethods
        \/ EngineOps
        \/ Marks
        \/ \E path \in {namePath, ElemField(0)}, messages \in {<<"custom">>, <<>>} :
             setCustomErrors(path, messages)
        \/ reset
        \/ ValidateSchemaCall
  \/ Events

Spec == Init /\ [][Next]_vars

\* One synchronous block of calls right after construction: no microtask,
\* effect, timer or validator result comes in between.
NextBlock ==
  /\ steps < MaxBlockOps
  /\ \/ \E i \in Indices, v \in Vals : WriteElem(i, v)
     \/ ArrayMethods
     \/ EngineOps
     \/ Marks

SpecBlock == Init /\ [][NextBlock]_vars

\* The calls that start, schedule or await validation passes and the calls
\* that set custom errors, interleaved with the event loop.
NextPasses ==
  \/ /\ steps < MaxOps
     /\ \/ \E v \in Vals : WriteName(v)
        \/ \E i \in Indices, v \in Vals : WriteElem(i, v)
        \/ \E v \in Vals : SetFieldName(v)
        \/ \E v \in Vals : ArrPush(v)
        \/ ArrShift
        \/ \E messages \in {<<"custom">>, <<>>} : setCustomErrors(namePath, messages)
        \/ reset
        \/ ValidateSchemaCall
  \/ Events

SpecPasses == Init /\ [][NextPasses]_vars

\* The same calls with a validator that may throw or reject.
NextFailing ==
  \/ /\ steps < MaxOps
     /\ \/ \E v \in Vals : WriteName(v)
        \/ \E i \in Indices, v \in Vals : WriteElem(i, v)
        \/ \E v \in Vals : ArrPush(v)
        \/ \E messages \in {<<"custom">>, <<>>} : setCustomErrors(namePath, messages)
        \/ ValidateSchemaCall
  \/ Events
  \/ \E k \in 1..Len(passes) : ValidateSchemaThrows(k)

SpecFailing == Init /\ [][NextFailing]_vars

\* A form made by fromCustom: its declared paths are the validator's keys
\* "name" and "items".
NextCustom ==
  \/ /\ steps < MaxOps
     /\ \/ \E v \in Vals : WriteName(v)
        \/ \E i \in Indices, v \in Vals : WriteElem(i, v)
        \/ \E v \in Vals : SetFieldName(v)
        \/ \E v \in Vals : ArrPush(v)
        \/ ArrShift
        \/ markTouched(namePath)
        \/ \E messages \in {<<"custom">>, <<>>} : setCustomErrors(namePath, messages)
        \/ reset
  \/ Events

SpecCustom == InitCustom /\ [][NextCustom]_vars

\* Field views of a form of either factory, in one synchronous block of calls:
\* getField on declared and undeclared paths, writes through the views and
\* through the tree, and calls that clear the caches.
ViewPaths == {namePath, arrayPath, ElemField(0), ElemField(1)} \cup UndeclaredPaths

InitViews == \E a \in {"zod", "custom"} : InitFor(a)

NextViews ==
  /\ steps < MaxViewOps
  /\ \/ \E path \in ViewPaths : GetField(path)
     \/ \E path \in ViewPaths, v \in Vals : FieldWrite(path, v)
     \/ \E i \in Indices, v \in Vals : WriteElem(i, v)
     \/ ArrShift
     \/ reset

SpecViews == InitViews /\ [][NextViews]_vars

\* The two caches of a form of fromSchema: getField on paths enough to fill
\* them, with the calls that clear entries and the engine push that needs one.
CachePaths == {namePath, arrayPath, ElemField(0), ElemField(1), ElemPath(1), TagsPath(1),
               <<"notAField">>}

InitCaches ==
  /\ Init
  /\ initialData.name = 1
  /\ \A n \in 1..Len(initialData.items) : initialData.items[n] = 1

NextCaches ==
  /\ steps < MaxCacheOps
  /\ \/ \E path \in CachePaths : GetField(path)
     \/ ArrShift
     \/ reset
     \/ EnginePush(1)

SpecCaches == InitCaches /\ [][NextCaches]_vars

\* The array of an element in one synchronous block of calls: pushes through
\* the wrappers and through the engine, the calls that move the element, and
\* getField on the paths of the element's array.
NestedPaths == {TagsPath(0), TagsPath(1), TagsPath(0) \o <<"0">>}

NextNested ==
  /\ steps < MaxNestedOps
  /\ \/ \E i \in Indices : TagsPush(i, 1)
     \/ \E i \in Indices : EnginePushNested(i, 1)
     \/ EnginePush(1)
     \/ ArrShift
     \/ \E path \in NestedPaths : GetField(path)

SpecNested == InitCaches /\ [][NextNested]_vars

\* The compiled accessors of a path tried on a tree: set, then get.
ProbeKeys == {"a", "0"}
ProbePaths == UNION {[1..n -> ProbeKeys] : n \in 1..MaxSegments}
ProbeNodes == {<<k>> : k \in ProbeKeys} \cup {<<k, l>> : k \in ProbeKeys, l \in ProbeKeys}

\* The maps that are trees: a value sits in an object or in an array, in an
\* array under an ordinal.
IsTree(f) ==
  \A q \in DOMAIN f :
    Len(q) > 1 =>
      LET parent == SubSeq(q, 1, Len(q) - 1)
      IN /\ parent \in DOMAIN f
         /\ f[parent] \in {"object", "array"}
         /\ f[parent] = "array" => isArrayIndex(q[Len(q)])

WithRoot(f) == [q \in DOMAIN f \cup {<<>>} |-> IF q = <<>> THEN "object" ELSE f[q]]

InitProbe ==
  /\ InitForm("zod")
  /\ initialData = [name |-> 0, items |-> <<>>]
  /\ \E S \in SUBSET ProbeNodes : \E f \in [S -> Kinds] :
       /\ IsTree(f)
       /\ \E path \in ProbePaths, value \in {"p0", "p1"} :
            probe = [tree |-> WithRoot(f), path |-> path, value |-> value,
                     stage |-> "tree", got |-> Undefined]

form == <<name, items, touched, errors, customErrors, isValid, isValidating, passes,
          scheduler, caches, win, lastOvertaken, lastThrew, settledWithCustom>>

\* compilePath(path).set(tree, value)
ProbeSet ==
  LET r == CompiledSet(probe.tree, probe.path, probe.value, 1)
  IN /\ probe.stage = "tree"
     /\ Event
     /\ probe' = [probe EXCEPT !.tree = r.tree,
                               !.stage = IF r.threw THEN "threw" ELSE "set"]
     /\ UNCHANGED <<adapter, initialData, form>>

\* compilePath(path).get(tree)
ProbeGet ==
  /\ probe.stage = "set"
  /\ Event
  /\ probe' = [probe EXCEPT !.got = CompiledGet(probe.tree, probe.path, 1),
                            !.stage = "got"]
  /\ UNCHANGED <<adapter, initialData, form>>

NextProbe == ProbeSet \/ ProbeGet

SpecProbe == InitProbe /\ [][NextProbe]_vars

\* ======================================================= ordinal remap
\* The touched keys below "items".
Below(t) == [q \in {k \in DOMAIN t : StartsWithDot(k, arrayPath)} |-> t[q]]

\* What the removal of cnt elements at from followed by the insertion of ins
\* elements at from asks of a map keyed by path: the keys of the removed
\* ordinals go, the keys of the later ordinals move by ins - cnt, every key
\* keeps its value.
Renumbered(t, from, cnt, ins) ==
  LET indexed(k) == MatchesIndex(k, arrayPath)
      survivors == {k \in DOMAIN t :
                      indexed(k) => (IndexOf(k, arrayPath) < from
                                     \/ IndexOf(k, arrayPath) >= from + cnt)}
      target(k) == IF indexed(k) /\ IndexOf(k, arrayPath) >= from + cnt
                     THEN WithIndex(k, arrayPath, IndexOf(k, arrayPath) - cnt + ins)
                     ELSE k
  IN [q \in {target(k) : k \in survivors} |->
        t[CHOOSE k \in survivors : target(k) = q]]

\* C1: removing count elements at start of "items", by engine splice or by
\* splice on the wrapped array, deletes the touched keys of the ordinals
\* start .. start+count-1, moves the keys of the later ordinals down by count
\* with their values, and leaves every other key below "items" as it was.
C1_RemoveRemap ==
  [][\A start \in 0..(MaxLen - 1), count \in 1..MaxLen :
       (/\ start + count <= Len(items)
        /\ ArrSplice(start, count, 0) \/ EngineSplice(start, count, 0))
       => Below(touched') = Below(Renumbered(touched, start, count, 0))]_vars

\* C6: inserting count >= 1 elements at start of "items" moves the touched keys
\* of the ordinals >= start up by count with their values, leaves the keys of
\* the earlier ordinals as they were, and the new ordinals carry no key.
C6_InsertRemap ==
  [][\A start \in 0..(MaxLen - 1), count \in 1..MaxLen :
       (/\ start <= Len(items)
        /\ \/ ArrSplice(start, 0, count)
           \/ EngineSplice(start, 0, count)
           \/ (start = 0 /\ ArrUnshift(count)))
       => Below(touched') = Below(Renumbered(touched, start, 0, count))]_vars

\* Array.prototype.splice: the first ordinal a call removes and how many
SpliceFrom(len, start) == IF start < 0 THEN Max(len + start, 0) ELSE Min(start, len)
SpliceCount(len, start, deleteCount) ==
  IF deleteCount = Omitted THEN len - SpliceFrom(len, start)
  ELSE Min(Max(deleteCount, 0), len - SpliceFrom(len, start))

\* Every touched key with an ordinal names an element the array holds.
KeysOfElements(t, len) ==
  \A k \in DOMAIN t : MatchesIndex(k, arrayPath) => IndexOf(k, arrayPath) < len

\* C7: a splice on the wrapped array, whatever its start and deleteCount, never
\* writes one surviving key over another: the keys of the elements that stay
\* keep their values at their new ordinals, and the number of touched keys
\* below "items" afterwards is the number before less the keys of the removed
\* ordinals.
C7_NoCollision ==
  [][\A start \in (0 - MaxLen)..MaxLen, deleteCount \in 0..MaxLen, n \in 0..MaxLen :
       (/\ KeysOfElements(touched, Len(items))
        /\ ArrSplice(start, deleteCount, n))
       => LET from == SpliceFrom(Len(items), start)
              cnt == SpliceCount(Len(items), start, deleteCount)
              gone == {k \in DOMAIN Below(touched) :
                         /\ MatchesIndex(k, arrayPath)
                         /\ IndexOf(k, arrayPath) >= from
                         /\ IndexOf(k, arrayPath) < from + cnt}
          IN /\ Below(touched') = Below(Renumbered(touched, from, cnt, n))
             /\ Cardinality(DOMAIN Below(touched'))
                  = Cardinality(DOMAIN Below(touched)) - Cardinality(gone)]_vars

\* ======================================================= wrapper paths
\* C2: a write through the wrapped tree that changes x of the element now at
\* ordinal i marks "items.i.x" touched and changes no touched key of another
\* ordinal, whatever structural mutations came before.
C2_WriteTouchesCurrentOrdinal ==
  [][\A i \in 0..(MaxLen - 1), v \in Vals :
       (/\ i < Len(items)
        /\ items[i + 1].x # v
        /\ WriteElem(i, v))
       => /\ ElemField(i) \in DOMAIN touched'
          /\ touched'[ElemField(i)] = TRUE
          /\ \A key \in DOMAIN touched' :
               (StartsWithDot(key, arrayPath) /\ key[2] # NumStr(i))
               => (key \in DOMAIN touched /\ touched'[key] = touched[key])]_vars

\* The touched entries of the elements at i and j: "items.i", "items.j" and
\* every key below them.
ElementKeys(t, i, j) ==
  [q \in {k \in DOMAIN t : /\ StartsWithDot(k, arrayPath)
                           /\ k[2] \in {NumStr(i), NumStr(j)}} |-> t[q]]

\* C5: swap("items", i, j) applied twice leaves the touched entries of the two
\* elements as they were before the first swap.
C5_SwapInvolution ==
  [][\A i \in 0..(MaxLen - 1), j \in 0..(MaxLen - 1) :
       (/\ i < Len(items) /\ j < Len(items)
        /\ lastSwap # <<>>
        /\ lastSwap[1] = i /\ lastSwap[2] = j
        /\ EngineSwap(i, j))
       => ElementKeys(touched', i, j) = ElementKeys(lastSwap[3], i, j)]_vars

\* ========================================================== validation
\* C3: the value-changing writes of one debounce window cause one call of
\* the validator between them.
C3_DebounceOneCall == win.writes >= 1 => win.calls = 1

\* No pass is in flight and none is scheduled.
Quiescent ==
  /\ passes = <<>>
  /\ microtasks = <<>>
  /\ pendingArrayValidation = {}
  /\ ~effectDirty
  /\ ~validationTimeout

Verdict == safeParse(name, items)

\* C4 as stated: whenever no pass is in flight or scheduled, errors and
\* isValid are the validator's verdict on the current tree, in whatever order
\* overlapping passes settled.
C4_VerdictOnCurrentTree ==
  Quiescent => (errors = ResultErrors(Verdict) /\ isValid = Verdict.success)

\* C4 amended: whenever no pass is in flight or scheduled and the pass that
\* settled last was not overtaken by one started after it, errors and isValid
\* are the validator's verdict on the current tree.
C4_VerdictWhenSettledInOrder ==
  (Quiescent /\ ~lastOvertaken)
  => (errors = ResultErrors(Verdict) /\ isValid = Verdict.success)

\* Two value-changing writes in one window, the first leaving "name" invalid
\* and the second valid; their passes settled in order and the error is gone.
C4_Witness ==
  /\ Quiescent /\ ~lastOvertaken
  /\ win.writes = 2
  /\ initialData.name = 1 /\ name = 1
  /\ touched = (namePath :> TRUE)
  /\ namePath \notin DOMAIN errors

\* C8: a structural mutation of "items" rewrites the keys of the schema error
\* map below "items" by the ordinal remap of the mutation, in the same step.
C8_ErrorsRemapped ==
  [][/\ (Len(items) >= 1 /\ ArrShift)
          => Below(errors') = Below(Renumbered(errors, 0, 1, 0))
     /\ (Len(items) >= 1 /\ ArrPop)
          => Below(errors') = Below(Renumbered(errors, Len(items) - 1, 1, 0))
     /\ ArrUnshift(1) => Below(errors') = Below(Renumbered(errors, 0, 0, 1))
     /\ \A i \in 0..(MaxLen - 1), j \in 0..(MaxLen - 1) :
          (i < Len(items) /\ j < Len(items) /\ EngineSwap(i, j))
          => Below(errors') = Below(syncTouchedStateForArraySwap(errors, arrayPath, i, j))
    ]_vars

\* C9: no validation pass and no write changes the custom error map: a step
\* that changes it is a call of the custom error setter or of reset().
C9_CustomErrorsKept ==
  [][customErrors' # customErrors
       => \/ \E path \in {namePath, ElemField(0)}, messages \in {<<"custom">>, <<>>} :
               setCustomErrors(path, messages)
          \/ reset]_vars

\* A custom error was set on "name", then a valid value was written and a
\* pass settled with success: the custom error is still there.
C9_Witness ==
  /\ settledWithCustom
  /\ namePath \in DOMAIN customErrors /\ customErrors[namePath] = <<"custom">>
  /\ initialData.name = 0 /\ name = 1
  /\ isValid /\ errors = EmptyMap

\* C10: when a pass settles with result r, errors is the empty map if r
\* succeeded and r.errors otherwise, isValid is r.success and isValidating is
\* false.
C10_PassReplacesErrors ==
  [][\A k \in 1..MaxInFlight :
       (k <= Len(passes) /\ ValidateSchemaDone(k))
       => LET r == passes[k].result
          IN /\ errors' = IF r.success THEN [q \in {} |-> <<>>] ELSE r.errors
             /\ isValid' = r.success
             /\ isValidating' = FALSE]_vars

\* A pass failed on an element only, after "name" was made valid: the settled
\* map holds the element's error and nothing of an earlier map.
C10_Witness ==
  /\ passes = <<>> /\ ~isValidating /\ ~isValid
  /\ initialData.name = 0 /\ name = 1
  /\ DOMAIN errors = {ElemField(0)}
  /\ ~lastOvertaken

\* C11: when the validator call of a pass throws or rejects, isValid becomes
\* false, isValidating is cleared, and errors, customErrors, touched and the
\* tree stay as they were.
C11_ThrowFailsClosed ==
  [][\A k \in 1..MaxInFlight :
       (k <= Len(passes) /\ ValidateSchemaThrows(k))
       => /\ isValid' = FALSE
          /\ isValidating' = FALSE
          /\ errors' = errors
          /\ customErrors' = customErrors
          /\ touched' = touched
          /\ name' = name /\ items' = items]_vars

\* A pass recorded an error for "name", "name" was made valid, and the pass of
\* that write threw: the earlier error map is still there, whole.
C11_Witness ==
  /\ lastThrew /\ passes = <<>>
  /\ ~isValid /\ ~isValidating
  /\ name = 1 /\ touched = (namePath :> TRUE)
  /\ DOMAIN errors = {namePath}

\* ================================================================ reset
\* The values of the tree's array.
TreeValues(its) == [n \in 1..Len(its) |-> its[n].x]

\* C12: reset() makes the tree the one built at construction from the
\* caller's initial data and empties touched, errors and customErrors, with
\* whichever adapter the form was made.
C12_ResetRestoresInitial ==
  [][reset => /\ name' = initialData.name
              /\ TreeValues(items') = initialData.items
              /\ touched' = EmptyMap
              /\ errors' = EmptyMap
              /\ customErrors' = EmptyMap]_vars

\* C13: after reset(), a second reset() would leave the tree and the three
\* maps as they are: what it installs is what is there.
C13_ResetIdempotent ==
  [][reset => /\ safePopulate' = [name |-> name', items |-> items']
              /\ touched' = EmptyMap
              /\ errors' = EmptyMap
              /\ customErrors' = EmptyMap]_vars

\* Two reset() calls in a row.
C13_Witness ==
  /\ resets = 2
  /\ name = initialData.name /\ TreeValues(items) = initialData.items
  /\ touched = EmptyMap /\ errors = EmptyMap /\ customErrors = EmptyMap
  /\ effectDirty

\* ======================================================== field views
\* The view getField hands out for an undeclared path reads as nothing.
InertViews ==
  \A path \in ViewPaths :
    normalizedPath(path) \notin validPaths =>
      FieldView(path) = [value |-> Undefined, error |-> Undefined, errors |-> <<>>,
                         touched |-> FALSE]

\* C14: getField(p), for a path p whose form with every ordinal replaced by 0
\* the validator does not declare, hands out a view whose value is undefined,
\* whose errors are empty and whose touched is false; the call adds no entry
\* to the field-view cache, and an assignment to the view's value leaves the
\* tree and the touched map as they were and starts no validation pass.
C14_UndeclaredViewInert ==
  /\ []InertViews
  /\ [][\A path \in ViewPaths, v \in Vals :
         normalizedPath(path) \notin validPaths /\ (FieldWrite(path, v) \/ GetField(path))
           => UNCHANGED <<name, items, touched, passes, fieldCache>>]_vars

\* An undeclared path has been asked for, by a form whose tree holds a value
\* at that path and whose touched map holds its key.
C14_Witness ==
  /\ adapter = "custom"
  /\ ElemField(0) \in Range(pathCache)
  /\ ElemField(0) \in DOMAIN touched
  /\ Len(items) > 0 /\ items[1].x = 1

\* C20: for splice(start, deleteCount, ...items), engine splice or the splice
\* of the wrapped array, an omitted deleteCount counts as all the elements from
\* start to the end when the remap is derived, and the remap is the removal
\* (if deleteCount > 0) followed by the insertion (if items are given); so
\* splice(start) with deleteCount omitted deletes the touched keys of every
\* ordinal >= start and leaves the keys of the lower ordinals as they were.
C20_OmittedCountRemovesTail ==
  [][\A start \in 0..Len(items) :
       ArrSplice(start, Omitted, 0) \/ EngineSplice(start, Omitted, 0)
         => Below(touched') = Renumbered(Below(touched), start, Len(items) - start, 0)]_vars

\* ============================================================== caches
\* No key of either cache lies below path.
NoKeyBelow(path) ==
  \A key \in Range(pathCache) \cup Range(fieldCache) : ~StartsWithDot(key, path)

\* C18: right after a structural mutation of the array at a path P, by a
\* mutating method of the wrapped array or by the engine's push, splice or
\* swap, neither the field-view cache nor the compiled-path cache holds a key
\* that starts with P followed by a dot.
C18_NoStaleKeys ==
  /\ [][items' # items /\ Len(items') # Len(items) => NoKeyBelow(arrayPath)']_vars
  /\ [][\A i \in Indices :
          (TagsPush(i, 1) \/ (EnginePushNested(i, 1) /\ items' # items))
            => NoKeyBelow(TagsPath(i))']_vars

\* C19: push(path, v) appends v to the array at path, which grows by one and
\* ends with v, and marks path touched, whenever the value at path is an
\* array: in every reachable state, also for an array inside an array element
\* of any ordinal, after a structural mutation of an ancestor array, and after
\* a cache eviction.
C19_PushAppends ==
  /\ [][\A v \in Vals :
          EnginePush(v) /\ Len(items) < MaxLen
            => /\ Len(items') = Len(items) + 1
               /\ items'[Len(items')].x = v
               /\ arrayPath \in DOMAIN touched' /\ touched'[arrayPath]]_vars
  /\ [][\A i \in Indices :
          EnginePushNested(i, 1) /\ Len(items[i + 1].tags) < MaxTags
            => /\ items'[i + 1].tags = Append(items[i + 1].tags, 1)
               /\ TagsPath(i) \in DOMAIN touched' /\ touched'[TagsPath(i)]]_vars

\* What an insertion into a cache of at most max keys leaves: the keys in
\* insertion order, the earliest gone if the cache was full.
FifoInsert(keys, key, max) ==
  Append(IF Len(keys) >= max THEN Tail(keys) ELSE keys, key)

\* C17: the compiled-path cache never holds more entries than its bound
\* (1000 in the code) nor the field-view cache more than its own (500); a
\* request for a key a cache holds leaves the cache as it is, and an
\* insertion into a full cache removes one entry, the one inserted earliest,
\* however recently it was read.
C17_CachesBoundedFifo ==
  /\ [](Len(pathCache) <= MaxPathCache /\ Len(fieldCache) <= MaxFieldCache)
  /\ [][\A path \in CachePaths :
         GetField(path) =>
           /\ pathCache' = IF path \in Range(pathCache) THEN pathCache
                           ELSE FifoInsert(pathCache, path, MaxPathCache)
           /\ fieldCache' = IF path \in Range(fieldCache)
                                \/ normalizedPath(path) \notin validPaths
                              THEN fieldCache
                              ELSE FifoInsert(fieldCache, path, MaxFieldCache)]_vars

\* Three calls of getField, each for a path not asked before: the path cache
\* is full and has lost the first declared paths, and the field cache is full
\* and has lost the view cached first.
C17_Witness ==
  /\ steps = 3
  /\ Len(pathCache) = MaxPathCache /\ namePath \notin Range(pathCache)
  /\ TagsPath(1) \in Range(pathCache)
  /\ Len(fieldCache) = MaxFieldCache /\ fieldCache = <<ElemPath(1), ElemField(1)>>

\* ================================================ compiled path accessors
\* C15: for every path, tree and value v, compile(p).set(tree, v) followed at
\* once by compile(p).get(tree) returns v, also where an intermediate segment
\* of p is missing from the tree, holds a primitive, or holds null.
C15_RoundTrip ==
  probe # <<>> /\ probe.stage = "got" => probe.got = probe.value

\* C16: neither compile(p).get nor compile(p).set throws, whatever the path
\* and the tree: where an intermediate segment is missing, null, or neither
\* an object nor an array, get returns undefined and set fills the segment in
\* or does nothing.
C16_NeverThrows ==
  probe # <<>> /\ probe.stage = "threw" => FALSE


\* ---------------------------------------------- one block of array mutations
\* One synchronous block made of array mutations only: mutating methods on the
\* wrapped items array and on the wrapped tags array of an element, and the
\* engine's push, splice and swap.
NextMutations ==
  /\ steps < MaxBlockOps
  /\ \/ ArrayMethods
     \/ EngineOps
     \/ \E i \in Indices : TagsPush(i, 1)
     \/ \E i \in Indices : EnginePushNested(i, 1)

SpecMutations == Init /\ [][NextMutations]_vars

\* C21: while a synchronous block of array mutations runs, no validation pass
\* has been started, and at most one is queued to start once the block is over.
C21_OnePassAfterBlock == passes = <<>> /\ Len(microtasks) <= 1


\* The wrappers standing between the array and the plain object of an element:
\* those the array stores in its slot, one around the other, and the wrapper
\* the identity cache holds for the value stored in the slot.
WrappersOf(slot) == Len(slot.wraps) + (IF slot.cached # NoProxy THEN 1 ELSE 0)

\* C22: no element of the wrapped array is ever reached through a wrapper
\* around a wrapper: wrapping an already-wrapped element yields that wrapper.
C22_NoWrapperAroundWrapper == \A n \in 1..Len(items) : WrappersOf(items[n]) <= 1


\* ======================================================= effective errors
\* Writes through the view of "name", custom errors set and cleared on it, and
\* pushes, interleaved with the event loop.
NextErrors ==
  \/ /\ steps < MaxOps
     /\ \/ \E v \in Vals : SetFieldName(v)
        \/ \E messages \in {<<"custom">>, <<>>} : setCustomErrors(namePath, messages)
        \/ ArrPush(1)
  \/ Events

SpecErrors == Init /\ [][NextErrors]_vars

\* The declared paths that hold messages in some state.
ErrorPaths == {namePath, arrayPath} \cup {ElemField(i) : i \in 0..(MaxLen - 1)}

MaxDisposeOps == 3

\* Calls on a form until it is disposed of, dispose() at any time, and the
\* event loop, which goes on after the disposal.
NextDispose ==
  \/ /\ steps < MaxDisposeOps
     /\ \/ /\ name # Absent
           /\ \/ \E v \in Vals : WriteName(v)
              \/ \E v \in Vals : SetFieldName(v)
              \/ ArrPush(1)
              \/ setCustomErrors(namePath, <<"custom">>)
        \/ dispose
  \/ Events

SpecDispose == Init /\ [][NextDispose]_vars

\* What a dispose() that follows a dispose() has to leave alone.
disposed == <<name, items, touched, errors, customErrors, isValid, isValidating, passes,
              scheduler, caches>>

\* C24: dispose() empties the compiled-path, field-view and pending-validation
\* caches and the touched, schema-error and custom-error maps and cancels the
\* pending debounce timer; it can be called in every state, and a second call
\* right after the first leaves the state the first call left.
C24_DisposeClears ==
  /\ [](ENABLED dispose)
  /\ [][dispose =>
          /\ pathCache' = <<>> /\ fieldCache' = <<>> /\ pendingArrayValidation' = {}
          /\ touched' = EmptyMap /\ errors' = EmptyMap /\ customErrors' = EmptyMap
          /\ ~validationTimeout'
          /\ (disposals > 0 => UNCHANGED disposed)]_vars

\* dispose() was called twice in a row on a form whose debounce timer was
\* pending no later than the first call (the pass and the callback that were
\* under way are still there).
C24_Witness ==
  /\ disposals = 2
  /\ pathCache = <<>> /\ fieldCache = <<>> /\ touched = EmptyMap
  /\ ~validationTimeout
  /\ passes # <<>>


\* ===================================================== marking all fields
\* Writes, pushes and passes that leave schema errors on some fields and none
\* on others, with the two calls that mark every field.
NextMarks ==
  \/ /\ steps < MaxOps
     /\ \/ \E v \in Vals : WriteName(v)
        \/ \E i \in Indices, v \in Vals : WriteElem(i, v)
        \/ ArrPush(1)
        \/ ValidateSchemaCall
        \/ markAllTouched
        \/ markAllAsPristine
  \/ Events

SpecMarks == Init /\ [][NextMarks]_vars

\* The paths of the fields the schema declares, for the tree as it is.
DeclaredFields == {namePath} \cup {ElemField(i) : i \in Indices}

\* C25: after markAllTouched() the view of every declared field reports
\* touched, whether or not the field has a schema error; after
\* markAllAsPristine() the view of every declared field reports untouched.
C25_MarkAllTouchesEveryField ==
  [][/\ markAllTouched => \A p \in DeclaredFields : (FieldView(p).touched)'
     /\ markAllAsPristine => \A p \in DeclaredFields : ~(FieldView(p).touched)']_vars


\* ================================================================= submit
\* Writes, pushes and submit events on a form element enhanced with
\* use:form.enhance={{ onSubmit, onError }}, interleaved with the event loop.
NextSubmit ==
  \/ /\ steps < MaxOps
     /\ \/ \E v \in Vals : WriteName(v)
        \/ \E i \in Indices, v \in Vals : WriteElem(i, v)
        \/ ArrPush(1)
        \/ Submit({"onSubmit", "onError"})
  \/ \E k \in 1..Len(passes) : "options" \notin DOMAIN passes[k] /\ ValidateSchemaDone(k)
  \/ \E k \in 1..Len(passes) : SubmitResume(k)
  \/ RunMicrotask
  \/ EffectRun
  \/ DebounceElapse

SpecSubmit == Init /\ [][NextSubmit]_vars

\* C26: the submit handler, once its validateSchema() has settled, invokes
\* exactly one of the two callbacks given to use:form.enhance: onSubmit with the
\* tree if the pass left no errors, otherwise onError with the error map.
C26_ExactlyOneCallback ==
  lastSubmit # <<>> =>
    lastSubmit[1].invoked =
      (IF lastSubmit[1].errorCount = 0
         THEN <<[callback |-> "onSubmit", argument |-> <<name, items>>]>>
         ELSE <<[callback |-> "onError", argument |-> errors]>>)


\* ==================================================== bare element keys
\* What a view reports for a key: touched[key] ?? false
Flag(t, key) == key \in DOMAIN t /\ t[key]

\* C27: syncTouchedStateForArraySwap("items", i, j), which swap("items", i, j)
\* runs on the touched map, exchanges the entries of the bare keys "items.i"
\* and "items.j" as it does those of the keys below them.
C27_SwapExchangesBareKeys ==
  \A i \in Indices, j \in Indices :
    LET swapped == syncTouchedStateForArraySwap(touched, arrayPath, i, j)
    IN /\ Flag(swapped, ElemPath(i)) = Flag(touched, ElemPath(j))
       /\ Flag(swapped, ElemPath(j)) = Flag(touched, ElemPath(i))
       /\ Flag(swapped, ElemField(i)) = Flag(touched, ElemField(j))
       /\ Flag(swapped, ElemField(j)) = Flag(touched, ElemField(i))


\* C28: unshift of n items on the wrapped array remaps the touched keys as the
\* insertion of n elements at 0 does, for every n; with no items, it leaves
\* every touched key below "items" as it was.
C28_UnshiftIsInsertAtZero ==
  [][\A n \in 0..MaxLen :
       ArrUnshift(n) => Below(touched') = Below(Renumbered(touched, 0, 0, n))]_vars


\* ==================================================================== pop
\* One synchronous block of pushes and pops on the wrapped array, with writes
\* to the elements and markTouched on the key of an ordinal past the initial
\* elements.
NextPop ==
  /\ steps < MaxBlockOps
  /\ \/ \E i \in Indices, v \in Vals : WriteElem(i, v)
     \/ markTouched(ElemField(MaxInit))
     \/ ArrPush(1)
     \/ ArrPop

SpecPop == Init /\ [][NextPop]_vars

\* The touched keys below "items" but those of the ordinal i.
BelowBut(t, i) ==
  [q \in {k \in DOMAIN t : StartsWithDot(k, arrayPath) /\ k[2] # NumStr(i)} |-> t[q]]

\* C29 as stated: pop() on the wrapped array deletes the touched keys of the
\* last ordinal and leaves every other key below "items" as it was; on an
\* empty array it leaves them all.
C29_PopDeletesLastOnly ==
  [][ArrPop => Below(touched') = (IF Len(items) = 0 THEN Below(touched)
                                  ELSE BelowBut(touched, Len(items) - 1))]_vars

\* C29, amended: pop() on the wrapped array remaps the touched keys as the
\* removal of one element at previousLength - 1, the length before the native
\* pop: the keys of the last ordinal are deleted, the keys of the ordinals
\* before it are left as they were, and a key of an ordinal past the last, one
\* that names no element, moves down by one; on an empty array no key changes.
C29_PopIsRemoveLast ==
  [][ArrPop => Below(touched') = (IF Len(items) = 0 THEN Below(touched)
                                  ELSE Below(Renumbered(touched, Len(items) - 1, 1, 0)))]_vars

\* A pop has shortened the initial array of two elements to one, the key of
\* the element left is touched, and the key marked past the last ordinal has
\* moved down by one.
C29_Witness ==
  /\ Len(initialData.items) = 2 /\ Len(items) = 1
  /\ steps = 3
  /\ touched = [q \in {arrayPath, ElemField(0), ElemField(1)} |-> TRUE]


\* ============================================================== reordering
\* One synchronous block of writes to the elements and of pushes, reverse()
\* and sort() on the wrapped array.
NextReorder ==
  /\ steps < MaxBlockOps
  /\ \/ \E i \in Indices, v \in Vals : WriteElem(i, v)
     \/ \E v \in Vals : ArrPush(v)
     \/ ArrReverse
     \/ ArrSort

SpecReorder == Init /\ [][NextReorder]_vars

\* C30: after reverse() or sort() on the wrapped array, the touched flag of
\* each element's field sits at the ordinal the element has moved to.
C30_ReorderRemapsTouched ==
  [][/\ ArrReverse =>
          \A i \in Indices :
            Flag(touched', ElemField(ReversedOrdinal(items, i))) = Flag(touched, ElemField(i))
     /\ ArrSort =>
          \A i \in Indices :
            Flag(touched', ElemField(SortedOrdinal(items, i))) = Flag(touched, ElemField(i))
    ]_vars


\* ================================================ order of the bookkeeping
\* One synchronous block of writes to the elements and of wrapped array
\* methods, each method taken one statement at a time.
NextStatements ==
  \/ /\ steps < MaxBlockOps
     /\ inCall = <<>>
     /\ \/ \E i \in Indices, v \in Vals : WriteElem(i, v)
        \/ \E v \in Vals : WrappedApply("push", NewItems(1, v))
        \/ WrappedApply("pop", <<>>)
        \/ WrappedApply("shift", <<>>)
        \/ WrappedApply("unshift", NewItems(1, 0))
  \/ WrappedMarkTouched
  \/ WrappedDebounce
  \/ WrappedRemap
  \/ WrappedReturn

SpecStatements == Init /\ [][NextStatements]_vars

\* C31: inside an intercepted array mutation, the revalidation is scheduled
\* only after the array path has been marked touched and the touched keys have
\* been remapped.
C31_TouchRemapSchedule ==
  (inCall # <<>> /\ "_debouncedArrayValidation" \in Range(inCall[1].done))
    => inCall[1].done = <<"markTouched", "_handleArrayMethodTouchedState",
                          "_debouncedArrayValidation">>


\* ===================================================== writes of no change
\* Writes through the wrapped tree, of new values and of the values the tree
\* holds, pushes and reset(), interleaved with the event loop.
NextSame ==
  \/ /\ steps < MaxOps
     /\ \/ \E v \in Vals : WriteName(v)
        \/ \E i \in Indices, v \in Vals : WriteElem(i, v)
        \/ \E i \in Indices : WriteSameElem(i)
        \/ ArrPush(1)
        \/ reset
  \/ Events

SpecSame == Init /\ [][NextSame]_vars

\* C32: a write through the wrapped tree of the value the property or the
\* array element holds leaves the touched map as it was and starts no pass;
\* reset() marks no path touched and starts no pass.
C32_SameValueWriteIsInert ==
  [][/\ (\/ WriteName(name)
         \/ \E i \in Indices : WriteElem(i, items[i + 1].x)
         \/ \E i \in Indices : WriteSameElem(i))
        => UNCHANGED <<touched, passes>>
     /\ reset => (touched' = EmptyMap /\ UNCHANGED passes)]_vars


\* ------------------------------------------------ liveness of validation
MaxLiveOps == 2    \* calls of the public surface per behaviour of SpecLive

\* RuneForm.fromSchema(schema, initialData) with at most one element
InitLive == InitFor("zod") /\ Len(items) <= 1

\* Writes, array mutations and reset, then no further call: the event loop
\* runs what is queued, and every validator call settles (resolves, rejects
\* or throws).
NextLive ==
  \/ /\ steps < MaxLiveOps
     /\ \/ \E v \in Vals : WriteName(v)
        \/ \E i \in Indices, v \in Vals : WriteElem(i, v)
        \/ \E v \in Vals : ArrPush(v)
        \/ reset
  \/ Events
  \/ \E k \in 1..Len(passes) : ValidateSchemaThrows(k)

\* A pass in flight settles, the microtask queue drains, effects and timers
\* that are due run.
Settles == \E k \in 1..Len(passes) : ValidateSchemaDone(k) \/ ValidateSchemaThrows(k)

SpecLive ==
  /\ InitLive
  /\ [][NextLive]_vars
  /\ WF_vars(Settles)
  /\ WF_vars(RunMicrotask)
  /\ WF_vars(EffectRun)
  /\ WF_vars(DebounceElapse)

\* A pass is in flight or a revalidation is queued.
Owed == passes # <<>> \/ microtasks # <<>>

\* The pass started last was handed the tree as it is after the step.
LastPassSeesTree == passes' # <<>> /\ passes'[Len(passes')].result = safeParse(name', items')

\* C33: a value-changing write starts a pass on the written tree, an array
\* mutation leaves a revalidation queued, the queued revalidation starts a pass
\* on the tree of its time, and whatever is in flight or queued is followed by
\* a state where every pass has run to completion and isValidating is false.
C33_ValidationFollows ==
  /\ [][/\ (\E v \in Vals : v # name /\ WriteName(v)) => LastPassSeesTree
        /\ (\E i \in Indices, v \in Vals : v # items[i + 1].x /\ WriteElem(i, v))
             => LastPassSeesTree
        /\ (\E v \in Vals : ArrPush(v)) => arrayPath \in Range(microtasks')
        /\ RunMicrotask => LastPassSeesTree]_vars
  /\ (Owed ~> (~Owed /\ ~isValidating))

\* "name" was cleared and an element pushed; everything owed has run and the
\* error of "name" is on the form.
C33_Witness ==
  /\ ~Owed /\ ~isValidating
  /\ name = 0 /\ initialData.name = 1
  /\ touched = (namePath :> TRUE) @@ (arrayPath :> TRUE)
  /\ namePath \in DOMAIN errors /\ ~isValid


\* ------------------------------------- the array's own compiled-path entry
MaxStructOps == 3  \* structural mutations per behaviour of SpecStructural

\* Structural mutations only, through the wrapped arrays and through the
\* engine: the wrapped push appends 1, the engine's push appends 0.
NextStructural ==
  /\ steps < MaxStructOps
  /\ \/ ArrPush(1)
     \/ ArrShift
     \/ \E start \in Starts, n \in 0..1 : ArrSplice(start, 1, n)
     \/ EnginePush(0)
     \/ \E start \in Starts, n \in 0..1 : EngineSplice(start, 1, n)
     \/ \E i \in Indices, j \in Indices : EngineSwap(i, j)
     \/ \E i \in Indices : TagsPush(i, 1)
     \/ \E i \in Indices : EnginePushNested(i, 1)

SpecStructural == InitCaches /\ [][NextStructural]_vars

\* A structural mutation of "items", by any entry point.
MutatesItems ==
  \/ ArrPush(1) \/ ArrShift \/ EnginePush(0)
  \/ \E start \in Starts, n \in 0..1 : ArrSplice(start, 1, n) \/ EngineSplice(start, 1, n)
  \/ \E i \in Indices, j \in Indices : EngineSwap(i, j)

\* C34: a structural mutation of an array leaves the compiled-path entry of
\* the array's own path in the cache ("items" under the mutations of "items",
\* "items.i.tags" under a push to that array), so that after any number of
\* structural mutations the engine's push, splice and swap on "items" still
\* find the entry and act: they mark "items" touched and the push appends.
C34_OwnEntrySurvives ==
  [][/\ MutatesItems => (arrayPath \in Range(pathCache) /\ arrayPath \in Range(pathCache'))
     /\ \A i \in Indices :
          (TagsPush(i, 1) \/ EnginePushNested(i, 1))
            => /\ arrayPath \in Range(pathCache')
               /\ TagsPath(i) \in Range(pathCache) => TagsPath(i) \in Range(pathCache')
     /\ EnginePush(0) => (items' = Append(items, Plain(0)) /\ arrayPath \in DOMAIN touched')
     /\ (\/ \E start \in Starts, n \in 0..1 : EngineSplice(start, 1, n)
         \/ \E i \in Indices, j \in Indices : EngineSwap(i, j))
          => (arrayPath \in DOMAIN touched' /\ ElemField(0) \notin Range(pathCache'))
    ]_vars

\* Two elements were shifted out, then the engine's push appended its element;
\* the entries below "items" are gone and the entry of "items" is there.
C34_Witness ==
  /\ steps = 3
  /\ Len(initialData.items) = 2
  /\ Len(items) = 1 /\ items[1].x = 0
  /\ arrayPath \in Range(pathCache)
  /\ ElemField(0) \notin Range(pathCache)


\* ------------------------------------------------ entry points of splice
\* C35: from the same state, the engine's splice("items", start, deleteCount,
\* ...new) ends with the tree and the touched map that splice(start,
\* deleteCount, ...new) on the wrapped array ends with.
C35_SpliceEntryPointsAgree ==
  [][\A start \in Starts, dc \in DeleteCounts, n \in 0..1 :
       (/\ dc = Omitted => n = 0
        /\ arrayPath \in Range(pathCache)
        /\ EngineSplice(start, dc, n))
       => /\ items' = wrappedMethod(touched, items, "splice", start, dc, NewItems(n, 0)).items
          /\ touched' = wrappedMethod(touched, items, "splice", start, dc, NewItems(n, 0)).touched
    ]_vars


\* ----------------------------------------------------- overlapping passes
\* C36: isValidating is true in every state in which a validation pass is in
\* flight (the validator was called and validateSchema() has not resumed).
C36_ValidatingWhileInFlight == passes # <<>> => isValidating


\* ------------------------------------------------ passes that outlive reset
\* C37: a pass that was in flight when reset() ran does not write its result
\* into the reset form. In the state reset() returns in (resets >= 1) every pass
\* in flight was started before the reset: when one of them settles next, the
\* schema error map stays empty and isValid stays false.
C37_ResetOutlivesOldPasses ==
  [][(resets >= 1 /\ \E k \in 1..Len(passes) : ValidateSchemaDone(k))
       => (errors' = EmptyMap /\ ~isValid')]_vars


\* ------------------------------------------------- isValid and the errors
MaxValidOps == 2   \* calls of the public surface per behaviour of SpecValid

\* Writes, reset() and dispose() on a form whose validator may throw or
\* reject, interleaved with the event loop.
NextValid ==
  \/ /\ steps < MaxValidOps
     /\ \/ /\ name # Absent
           /\ \/ \E v \in Vals : WriteName(v)
              \/ \E i \in Indices, v \in Vals : WriteElem(i, v)
              \/ ArrPush(1)
        \/ reset
        \/ dispose
  \/ Events
  \/ \E k \in 1..Len(passes) : ValidateSchemaThrows(k)

SpecValid == InitLive /\ [][NextValid]_vars

\* C38: whenever isValid is true the schema error map is empty, and reset(),
\* dispose() and a validator call that throws or rejects each leave isValid
\* false.
C38_ValidMeansNoErrors ==
  /\ [](isValid => errors = EmptyMap)
  /\ [][(reset \/ dispose \/ \E k \in 1..Len(passes) : ValidateSchemaThrows(k))
          => ~isValid']_vars

\* The form started with a "name" the schema rejects, a write made it valid
\* and the pass of that write settled: isValid is true over an empty map.
C38_Witness ==
  /\ isValid /\ errors = EmptyMap
  /\ initialData.name = 0 /\ name = 1
  /\ touched = (namePath :> TRUE)
  /\ passes = <<>>


\* --------------------------------------------------- swap at any indices
MaxSwapOps == 2    \* calls of the public surface per behaviour of SpecSwapAny

\* No element of the array is undefined.
NoHoles == \A n \in 1..Len(items) : items[n] # Hole

\* Writes, pushes and swaps at any two indices from -1 to the length, followed
\* up to the first call that leaves an undefined element in the array.
NextSwapAny ==
  /\ steps < MaxSwapOps
  /\ NoHoles
  /\ \/ \E i \in Indices, v \in Vals : WriteElem(i, v)
     \/ ArrPush(1)
     \/ \E i \in Indices, j \in Indices : EngineSwap(i, j)
     \/ \E i \in (0 - 1)..Len(items), j \in (0 - 1)..Len(items) : EngineSwapOutside(i, j)

SpecSwapAny == Init /\ [][NextSwapAny]_vars

\* How many elements of the array hold the value v (Absent: are undefined).
CountOf(its, v) == Cardinality({n \in 1..Len(its) : its[n].x = v})

\* C39: the engine's swap("items", i, j) leaves the array with the length and
\* the elements it had, for i and j in range, negative, or not smaller than the
\* length.
C39_SwapKeepsElements ==
  [][\A i \in (0 - 1)..Len(items), j \in (0 - 1)..Len(items) :
       (IF i \in Indices /\ j \in Indices THEN EngineSwap(i, j) ELSE EngineSwapOutside(i, j))
       => /\ Len(items') = Len(items)
          /\ \A v \in Vals \cup {Absent} : CountOf(items', v) = CountOf(items, v)]_vars


\* ------------------------------------- assignments through the array view
MaxAssignOps == 2  \* calls of the public surface per behaviour of SpecAssign

\* Assignments to an element index and to length through the wrapped array,
\* and pushes, interleaved with the event loop.
NextAssign ==
  \/ /\ steps < MaxAssignOps
     /\ \/ \E i \in Indices, v \in Vals : AssignElem(i, v)
        \/ \E n \in 0..MaxLen : AssignLength(n)
        \/ ArrPush(1)
  \/ Events

SpecAssign == Init /\ [][NextAssign]_vars

\* C40: an assignment through the wrapped array is applied to the array: to an
\* element index it stores the value there, to length it makes the array that
\* long (length = 0 empties it).
C40_AssignmentsApplied ==
  [][/\ \A i \in Indices, v \in Vals : AssignElem(i, v) => items'[i + 1].x = v
     /\ \A n \in 0..Len(items) : AssignLength(n) => items' = SubSeq(items, 1, n)]_vars

====
